---- MODULE Spec2Model ----
(***************************************************************************)
(* json2ubl: JSON -> UBL 2.1 XML conversion.                               *)
(*                                                                         *)
(* The module models, from the Python sources,                             *)
(*   - the document multi-page merger (converter.py, _merge_pages and      *)
(*     _group_and_merge_documents),                                        *)
(*   - the schema driven field extraction (schema_field_extractor.py),     *)
(*   - the schema driven XML serializer (serializer.py),                   *)
(*   - the conversion entry points (converter.py and __init__.py).         *)
(*                                                                         *)
(* JSON values are tagged records [k, s, items]:                           *)
(*   k = "null" | "str" | "num" | "bool" | "list" | "dict"                 *)
(*   s      the Python str() of a scalar ("" otherwise)                    *)
(*   items  the items of a list, or the [key, val] entries of a dict in    *)
(*          insertion order (Python dicts are ordered).                    *)
(* An XML element is a record [tag, text, attrib, children]; text is <<>>  *)
(* when lxml's el.text is None and <<t>> when it is the string t.          *)
(***************************************************************************)
EXTENDS Integers, Sequences, FiniteSets, TLC

VARIABLES
    pc,            \* position of the current call: "start", stages, "done"
    schema_cache,  \* the schema cache handed to the merger / extractor / serializer
    pages,         \* _merge_pages: the pages argument as passed
    pages_after,   \* _merge_pages: the caller's pages once the call has returned
    merged,        \* _merge_pages: the returned document
    document,      \* the document dict being converted
    document2,     \* a second document, compared with the first
    normalized,    \* document after _normalize_keys_recursive
    mapped,        \* result of validate_and_extract: cleaned_json, dropped_fields
    xml,           \* root element serialized for document
    xml2,          \* root element serialized for document2
    request,       \* argument of the last call of a conversion entry point
    response,      \* response dict of the last call
    schema_caches, \* Json2UblConverter._schema_caches: the document types loaded
    cache_files,   \* document types whose cache file can be read or built
    output_files,  \* the files of the output directory
    loader         \* _load_schema_cache under threads: lock, entry, positions

vars == <<pc, schema_cache, pages, pages_after, merged, document,
          document2, normalized, mapped, xml, xml2, request, response, schema_caches,
          cache_files, output_files, loader>>

\* F(v), for a v that is computed once
With(v, F(_)) == CHOOSE r \in {F(x) : x \in {v}} : TRUE

-----------------------------------------------------------------------------
(* Python values *)

Null == [k |-> "null", s |-> "", items |-> <<>>]

Str(x) == [k |-> "str", s |-> x, items |-> <<>>]

Num(x) == [k |-> "num", s |-> x, items |-> <<>>]

Bool(b) == [k |-> "bool", s |-> IF b THEN "True" ELSE "False", items |-> <<>>]

List(xs) == [k |-> "list", s |-> "", items |-> xs]

Dict(es) == [k |-> "dict", s |-> "", items |-> es]

Entry(key, val) == [key |-> key, val |-> val]

IsNone(v) == v.k = "null"

IsList(v) == v.k = "list"

IsDict(v) == v.k = "dict"

\* Python truthiness: None, "", 0, False, [] and {} are falsy
Truthy(v) ==
    CASE v.k = "null" -> FALSE
      [] v.k = "str"  -> v.s # ""
      [] v.k = "num"  -> v.s # "0"
      [] v.k = "bool" -> v.s = "True"
      [] OTHER        -> v.items # <<>>

\* Python str(v); the repr of a non-empty container is not spelled out
PyStr(v) ==
    CASE v.k = "null" -> "None"
      [] v.k \in {"str", "num", "bool"} -> v.s
      [] v.k = "list" -> IF v.items = <<>> THEN "[]" ELSE "[...]"
      [] OTHER        -> IF v.items = <<>> THEN "{}" ELSE "{...}"

\* str.lower() on the key spellings the model uses
Lower(key) ==
    CASE key = "ID" -> "id"
      [] key = "Id" -> "id"
      [] key = "Note" -> "note"
      [] key = "NOTE" -> "note"
      [] key = "DueDate" -> "duedate"
      [] key = "dueDate" -> "duedate"
      [] key = "Party" -> "party"
      [] key = "Name" -> "name"
      [] key = "InvoiceLine" -> "invoiceline"
      [] key = "invoiceLine" -> "invoiceline"
      [] key = "currencyID" -> "currencyid"
      [] key = "Extra" -> "extra"
      [] OTHER -> key

-----------------------------------------------------------------------------
(* Ordered dicts as sequences of [key, val] entries *)

RECURSIVE IndexOfKey(_, _, _)
\* position of key among the entries from position i on, 0 when absent
IndexOfKey(es, key, i) ==
    IF i > Len(es) THEN 0
    ELSE IF es[i].key = key THEN i
    ELSE IndexOfKey(es, key, i + 1)

HasKey(es, key) == IndexOfKey(es, key, 1) # 0

\* d[key] of a dict that holds key
GetKey(es, key) == es[IndexOfKey(es, key, 1)].val

\* d[key] = val: replaces in place, or appends a new key at the end
SetKey(es, key, val) ==
    LET i == IndexOfKey(es, key, 1)
    IN IF i = 0 THEN Append(es, Entry(key, val))
       ELSE [es EXCEPT ![i] = Entry(key, val)]

\* d.get(key) on a JSON dict value: None when absent
DictGet(d, key) == IF HasKey(d.items, key) THEN GetKey(d.items, key) ELSE Null

KeysOf(es) == {es[i].key : i \in 1..Len(es)}

RECURSIVE KeysLowerFrom(_, _, _)
\* {k.lower(): k for k in d.keys()}: a later spelling replaces an earlier one
KeysLowerFrom(es, i, acc) ==
    IF i > Len(es) THEN acc
    ELSE KeysLowerFrom(es, i + 1, SetKey(acc, Lower(es[i].key), es[i].key))

KeysLower(es) == KeysLowerFrom(es, 1, <<>>)

-----------------------------------------------------------------------------
(* Schema cache (schema_cache_builder.py): ElementSpec records in declaration  *)
(* order.  The builder always writes name, type, minOccurs, maxOccurs and      *)
(* nested_elements ({} for a leaf).                                            *)

Elem(key, name, type, minOccurs, maxOccurs, nested) ==
    [key |-> key, name |-> name, type |-> type, minOccurs |-> minOccurs,
     maxOccurs |-> maxOccurs, nested_elements |-> nested]

\* An excerpt of the Invoice cache: a required leaf, an optional array leaf,
\* an optional aggregate and a required array of aggregates
InvoiceElements ==
    << Elem("id", "ID", "cbc:ID", "1", "1", <<>>),
       Elem("note", "Note", "cbc:Note", "0", "unbounded", <<>>),
       Elem("party", "Party", "cac:Party", "0", "1",
            << Elem("name", "Name", "cbc:Name", "1", "1", <<>>),
               Elem("id", "ID", "cbc:ID", "0", "1", <<>>) >>),
       Elem("invoiceline", "InvoiceLine", "cac:InvoiceLine", "1", "unbounded",
            << Elem("id", "ID", "cbc:ID", "1", "1", <<>>),
               Elem("note", "Note", "cbc:Note", "0", "unbounded", <<>>) >>) >>

InvoiceCache ==
    [empty |-> FALSE, root_element_name |-> "Invoice",
     root_namespace |-> "urn:oasis:names:specification:ubl:schema:xsd:Invoice-2",
     elements |-> InvoiceElements]

\* {}: what XmlSerializer(None) and the converter's generic mode work with
EmptyCache ==
    [empty |-> TRUE, root_element_name |-> "", root_namespace |-> "",
     elements |-> <<>>]

RECURSIVE SpecIndex(_, _, _)
SpecIndex(spec, key, i) ==
    IF i > Len(spec) THEN 0
    ELSE IF spec[i].key = key THEN i
    ELSE SpecIndex(spec, key, i + 1)

\* key in schema_elements
SpecHas(spec, key) == SpecIndex(spec, key, 1) # 0

\* schema_elements[key]
SpecGet(spec, key) == spec[SpecIndex(spec, key, 1)]

-----------------------------------------------------------------------------
(* XmlSerializer (serializer.py) *)

NS_CBC == "urn:oasis:names:specification:ubl:schema:xsd:CommonBasicComponents-2"

NS_CAC == "urn:oasis:names:specification:ubl:schema:xsd:CommonAggregateComponents-2"

NS_EXT == "urn:oasis:names:specification:ubl:schema:xsd:CommonExtensionComponents-2"

\* the words of basic_indicators and aggregate_indicators
BasicIndicators ==
    {"Code", "Amount", "Date", "Identifier", "ID", "Quantity", "Percentage",
     "Measure", "Indicator", "URI", "Rate", "Numeric", "Name", "Text", "String",
     "Time", "Currency"}

AggregateIndicators ==
    {"Party", "Address", "Contact", "Reference", "Total", "Subtotal", "Scheme",
     "Category", "Entity", "Item", "Line", "Component", "Charge", "Allowance",
     "Delivery", "Period", "Document", "Financial", "Location", "Transport",
     "Classification", "Extension", "Means", "Terms", "Information", "Details",
     "Specification"}

\* the indicators that are substrings of tag ("indicator in tag", case
\* sensitive), for the element names the model uses
IndicatorsIn(tag) ==
    CASE tag = "ID" -> {"ID"}
      [] tag = "Name" -> {"Name"}
      [] tag = "Party" -> {"Party"}
      [] tag = "PartyName" -> {"Party", "Name"}
      [] tag = "InvoiceLine" -> {"Line"}
      [] tag = "UBLExtensions" -> {"Extension"}
      [] tag = "DocumentType" -> {"Document"}
      [] tag = "DocumentCurrencyCode" -> {"Document", "Currency", "Code"}
      [] tag = "Currencyid" -> {"Currency"}
      [] tag = "PayableAmount" -> {"Amount"}
      [] tag = "Amount" -> {"Amount"}
      [] tag = "PaidIndicator" -> {"Indicator"}
      [] tag = "Unitcode" -> {"Code"}
      [] OTHER -> {}

\* _get_element_namespace(tag)
get_element_namespace(tag) ==
    IF IndicatorsIn(tag) \cap BasicIndicators # {} THEN NS_CBC
    ELSE IF IndicatorsIn(tag) \cap AggregateIndicators # {} THEN NS_CAC
    ELSE NS_CBC

Element(tag, text, attrib, children) ==
    [tag |-> tag, ns |-> get_element_namespace(tag), text |-> text,
     attrib |-> attrib, children |-> children]

NoText == <<>>

\* _create_element: el.text = str(text) unless text is None
TextOf(v) == IF IsNone(v) THEN NoText ELSE <<PyStr(v)>>

\* _capitalize_element_name on the lowercase keys the model uses
capitalize_element_name(lowercase_name) ==
    CASE lowercase_name = "id" -> "ID"
      [] lowercase_name = "note" -> "Note"
      [] lowercase_name = "party" -> "Party"
      [] lowercase_name = "name" -> "Name"
      [] lowercase_name = "invoiceline" -> "Invoiceline"
      [] lowercase_name = "duedate" -> "Duedate"
      [] lowercase_name = "extra" -> "Extra"
      [] lowercase_name = "value" -> "Value"
      [] lowercase_name = "currencyid" -> "Currencyid"
      [] lowercase_name = "document_type" -> "DocumentType"
      [] lowercase_name = "payableamount" -> "Payableamount"
      [] lowercase_name = "copyindicator" -> "Copyindicator"
      [] lowercase_name = "signature" -> "Signature"
      [] lowercase_name = "ublextensions" -> "Ublextensions"
      [] lowercase_name = "documentcurrencycode" -> "Documentcurrencycode"
      [] OTHER -> lowercase_name

RECURSIVE extract_names(_, _, _)
\* _build_element_name_lookup: lowercase key -> element name over the whole cache
extract_names(spec, i, lookup) ==
    IF i > Len(spec) THEN lookup
    ELSE LET info == spec[i]
             own == IF info.name # "" THEN SetKey(lookup, info.key, info.name)
                    ELSE lookup
             deep == IF info.nested_elements # <<>>
                     THEN extract_names(info.nested_elements, 1, own)
                     ELSE own
         IN extract_names(spec, i + 1, deep)

build_element_name_lookup(cache) == extract_names(cache.elements, 1, <<>>)

\* _extract_value_for_field: the "value" entry of a dict that has one
extract_value_for_field(value, element_type) ==
    IF IsDict(value) /\ HasKey(value.items, "value")
    THEN GetKey(value.items, "value")
    ELSE value

RECURSIVE AttribFrom(_, _)
\* {k: str(v) for k, v in data_value.items() if k != "value"}
AttribFrom(es, i) ==
    IF i > Len(es) THEN <<>>
    ELSE IF es[i].key = "value" THEN AttribFrom(es, i + 1)
    ELSE <<Entry(es[i].key, PyStr(es[i].val))>> \o AttribFrom(es, i + 1)

MaxSerializeDepth == 50

RECURSIVE serialize_recursive(_, _, _, _)
RECURSIVE GenericItems(_, _, _, _, _)
RECURSIVE GenericFields(_, _, _, _, _)
RECURSIVE ArrayItems(_, _, _, _, _)
RECURSIVE SchemaFields(_, _, _, _, _, _)

\* lines 141-147: one element per list item, in generic mode
GenericItems(xs, i, element_name, lookup, depth) ==
    IF i > Len(xs) THEN <<>>
    ELSE LET item == xs[i]
             el == IF IsDict(item)
                   THEN Element(element_name, NoText, <<>>,
                                serialize_recursive(item, <<>>, lookup, depth + 1))
                   ELSE Element(element_name, <<PyStr(item)>>, <<>>, <<>>)
         IN <<el>> \o GenericItems(xs, i + 1, element_name, lookup, depth)

\* lines 129-150: an empty schema_spec emits every data key, in data order
GenericFields(data_dict, keys_lower, i, lookup, depth) ==
    IF i > Len(keys_lower) THEN <<>>
    ELSE LET data_key_lower == keys_lower[i].key
             data_value == GetKey(data_dict.items, keys_lower[i].val)
             element_name == IF HasKey(lookup, data_key_lower)
                             THEN GetKey(lookup, data_key_lower)
                             ELSE capitalize_element_name(data_key_lower)
             here ==
                IF IsNone(data_value) THEN <<>>
                ELSE IF IsDict(data_value)
                THEN <<Element(element_name, NoText, <<>>,
                        serialize_recursive(data_value, <<>>, lookup, depth + 1))>>
                ELSE IF IsList(data_value)
                THEN GenericItems(data_value.items, 1, element_name, lookup, depth)
                ELSE <<Element(element_name, <<PyStr(data_value)>>, <<>>, <<>>)>>
         IN here \o GenericFields(data_dict, keys_lower, i + 1, lookup, depth)

\* lines 191-202: one element per item of a list given for an array field
ArrayItems(xs, i, info, lookup, depth) ==
    IF i > Len(xs) THEN <<>>
    ELSE LET item == xs[i]
             el == IF IsDict(item)
                   THEN Element(info.name, NoText, <<>>,
                                serialize_recursive(item, info.nested_elements,
                                                    lookup, depth + 1))
                   ELSE Element(info.name,
                                TextOf(extract_value_for_field(item, info.type)),
                                <<>>, <<>>)
         IN <<el>> \o ArrayItems(xs, i + 1, info, lookup, depth)

\* lines 203-216: a single value given for an array field
ArraySingle(data_value, info, lookup, depth) ==
    IF IsDict(data_value)
    THEN <<Element(info.name, NoText, <<>>,
            serialize_recursive(data_value, info.nested_elements, lookup, depth + 1))>>
    ELSE <<Element(info.name, TextOf(extract_value_for_field(data_value, info.type)),
                   <<>>, <<>>)>>

\* lines 217-268: the singular element.  The source carries this branch twice
\* (217-245, then 246-268 under a second else); the model follows the first
\* copy and takes the closing scalar case (265-268) from the second.
SingleElement(data_value, info, lookup, depth) ==
    IF IsDict(data_value)
    THEN IF HasKey(data_value.items, "value") /\ info.nested_elements = <<>>
         THEN <<Element(info.name, <<PyStr(GetKey(data_value.items, "value"))>>,
                        AttribFrom(data_value.items, 1), <<>>)>>
         ELSE <<Element(info.name, NoText, <<>>,
                 serialize_recursive(data_value, info.nested_elements, lookup,
                                     depth + 1))>>
    ELSE IF IsList(data_value) /\ data_value.items # <<>>
    THEN LET first == data_value.items[1]
         IN IF IsDict(first)
            THEN <<Element(info.name, NoText, <<>>,
                    serialize_recursive(first, info.nested_elements, lookup,
                                        depth + 1))>>
            ELSE <<Element(info.name,
                           TextOf(extract_value_for_field(first, info.type)),
                           <<>>, <<>>)>>
    ELSE <<Element(info.name, TextOf(extract_value_for_field(data_value, info.type)),
                   <<>>, <<>>)>>

\* lines 167-176: a None value gives an empty element only for minOccurs "1"
NullElement(info) ==
    IF info.minOccurs = "1" \/ info.minOccurs = "true"
    THEN <<Element(info.name, <<"">>, <<>>, <<>>)>>
    ELSE <<>>

\* lines 178-268: dispatch on maxOccurs
FieldElements(data_value, info, lookup, depth) ==
    IF IsNone(data_value) THEN NullElement(info)
    ELSE IF info.maxOccurs = "unbounded"
    THEN IF IsList(data_value)
         THEN ArrayItems(data_value.items, 1, info, lookup, depth)
         ELSE ArraySingle(data_value, info, lookup, depth)
    ELSE SingleElement(data_value, info, lookup, depth)

\* lines 153-268: the schema's entries in declaration order
SchemaFields(data_dict, keys_lower, schema_spec, i, lookup, depth) ==
    IF i > Len(schema_spec) THEN <<>>
    ELSE LET info == schema_spec[i]
             here == IF HasKey(keys_lower, info.key)
                     THEN FieldElements(
                              GetKey(data_dict.items, GetKey(keys_lower, info.key)),
                              info, lookup, depth)
                     ELSE <<>>
         IN here \o SchemaFields(data_dict, keys_lower, schema_spec, i + 1,
                                 lookup, depth)

\* _serialize_recursive: the children appended to parent
serialize_recursive(data_dict, schema_spec, lookup, depth) ==
    IF depth > MaxSerializeDepth THEN <<>>
    ELSE IF ~IsDict(data_dict) THEN <<>>
    ELSE IF schema_spec = <<>>
    THEN GenericFields(data_dict, KeysLower(data_dict.items), 1, lookup, depth)
    ELSE SchemaFields(data_dict, KeysLower(data_dict.items), schema_spec, 1,
                      lookup, depth)

\* _get_default_namespace(doc_type)
get_default_namespace(doc_type) ==
    CASE doc_type = "Invoice" -> "urn:oasis:names:specification:ubl:schema:xsd:Invoice-2"
      [] doc_type = "CreditNote" ->
             "urn:oasis:names:specification:ubl:schema:xsd:CreditNote-2"
      [] OTHER -> "urn:oasis:names:specification:ubl:schema:xsd:other-2"

\* XmlSerializer(schema_cache).serialize(doc): the root element
serialize(doc, cache) ==
    LET doc_type == IF HasKey(doc.items, "document_type")
                    THEN PyStr(GetKey(doc.items, "document_type"))
                    ELSE "Invoice"
        root_element == IF cache.empty THEN doc_type ELSE cache.root_element_name
    IN [Element(root_element, NoText, <<>>,
                serialize_recursive(doc, cache.elements,
                                    build_element_name_lookup(cache), 0))
           EXCEPT !.ns = IF cache.empty THEN get_default_namespace(doc_type)
                         ELSE cache.root_namespace]

-----------------------------------------------------------------------------
(* Json2UblConverter._normalize_keys_recursive (converter.py) *)

RECURSIVE normalize_keys_recursive(_)
RECURSIVE NormalizeEntries(_, _, _)
RECURSIVE NormalizeItems(_, _)

\* {k.lower(): normalize(v) for k, v in obj.items()}
NormalizeEntries(es, i, acc) ==
    IF i > Len(es) THEN acc
    ELSE NormalizeEntries(es, i + 1,
             SetKey(acc, Lower(es[i].key), normalize_keys_recursive(es[i].val)))

NormalizeItems(xs, i) ==
    IF i > Len(xs) THEN <<>>
    ELSE <<normalize_keys_recursive(xs[i])>> \o NormalizeItems(xs, i + 1)

normalize_keys_recursive(obj) ==
    IF IsDict(obj) THEN Dict(NormalizeEntries(obj.items, 1, <<>>))
    ELSE IF IsList(obj) THEN List(NormalizeItems(obj.items, 1))
    ELSE obj

-----------------------------------------------------------------------------
(* SchemaFieldExtractor (schema_field_extractor.py) *)

\* str.lower() on the type strings of the cache; none of them spells "array"
\* or "object"
LowerType(type) ==
    CASE type = "cbc:ID" -> "cbc:id"
      [] type = "cbc:Note" -> "cbc:note"
      [] type = "cbc:Name" -> "cbc:name"
      [] type = "cac:Party" -> "cac:party"
      [] type = "cac:InvoiceLine" -> "cac:invoiceline"
      [] OTHER -> type

\* f"{path}.{field_name}" if path else field_name
FieldPath(path, field_name) ==
    IF path # "" THEN path \o "." \o field_name ELSE field_name

\* f"{path}[{idx}]", idx counting from 0
IndexPath(path, idx) == path \o "[" \o ToString(idx) \o "]"

Extracted(value, dropped) == [value |-> value, dropped |-> dropped]

RECURSIVE validate_and_extract(_, _, _)
RECURSIVE ExtractEntries(_, _, _, _, _, _)
RECURSIVE ExtractArray(_, _, _, _, _, _)
RECURSIVE extract_field(_, _, _)

\* lines 148-161: the elements of a list given for an array field
ExtractArray(xs, i, field_schema, path, acc, dropped) ==
    IF i > Len(xs) THEN Extracted(List(acc), dropped)
    ELSE LET element == xs[i]
         IN IF IsDict(element) /\ "nested_elements" \in DOMAIN field_schema
            THEN LET nested_result ==
                        validate_and_extract(element, field_schema.nested_elements,
                                             IndexPath(path, i - 1))
                 IN ExtractArray(xs, i + 1, field_schema, path,
                                 Append(acc, nested_result.cleaned_json),
                                 dropped \o nested_result.dropped_fields)
            ELSE ExtractArray(xs, i + 1, field_schema, path,
                              Append(acc, element), dropped)

\* _extract_field: (extracted_value, dropped_fields); None is Null
extract_field(value, field_schema, path) ==
    LET field_type == LowerType(field_schema.type)
        max_occurs == field_schema.maxOccurs
        is_array == \/ field_type = "array"
                    \/ max_occurs = "unbounded"
                    \/ (max_occurs # "1" /\ max_occurs # "0")
    IN IF is_array
       THEN IF ~IsList(value) THEN Extracted(Null, <<path>>)
            ELSE ExtractArray(value.items, 1, field_schema, path, <<>>, <<>>)
       ELSE IF \/ field_type \in {"object", "xsd:complextype"}
               \/ "nested_elements" \in DOMAIN field_schema
       THEN IF ~IsDict(value) THEN Extracted(Null, <<path>>)
            ELSE IF "nested_elements" \notin DOMAIN field_schema
            THEN Extracted(value, <<>>)
            ELSE LET nested_result ==
                        validate_and_extract(value, field_schema.nested_elements, path)
                 IN Extracted(nested_result.cleaned_json,
                              nested_result.dropped_fields)
       ELSE Extracted(value, <<>>)

\* lines 87-110: the fields of json_dict in its own key order
ExtractEntries(es, i, schema_elements, path, cleaned, dropped) ==
    IF i > Len(es)
    THEN [cleaned_json |-> Dict(cleaned), dropped_fields |-> dropped]
    ELSE LET field_name == es[i].key
             field_path == FieldPath(path, field_name)
             field_name_normalized == Lower(field_name)
         IN IF ~SpecHas(schema_elements, field_name_normalized)
            THEN ExtractEntries(es, i + 1, schema_elements, path, cleaned,
                                Append(dropped, field_path))
            ELSE LET got == extract_field(es[i].val,
                                SpecGet(schema_elements, field_name_normalized),
                                field_path)
                     kept == IF ~IsNone(got.value)
                             THEN SetKey(cleaned, field_name, got.value)
                             ELSE cleaned
                 IN ExtractEntries(es, i + 1, schema_elements, path, kept,
                                   dropped \o got.dropped)

\* validate_and_extract(json_dict, schema, path), schema given as its elements map
validate_and_extract(json_dict, schema_elements, path) ==
    ExtractEntries(json_dict.items, 1, schema_elements, path, <<>>, <<>>)

-----------------------------------------------------------------------------
(* Json2UblConverter._merge_pages (converter.py) *)

DelKey(es, key) == SelectSeq(es, LAMBDA e : e.key # key)

RECURSIVE ArrayFieldsFrom(_, _)

\* array_fields: lowercase keys whose maxOccurs is "unbounded" (none without
\* a schema cache)
ArrayFieldsFrom(spec, i) ==
    IF i > Len(spec) THEN {}
    ELSE (IF spec[i].maxOccurs = "unbounded" THEN {spec[i].key} ELSE {})
         \cup ArrayFieldsFrom(spec, i + 1)

array_fields(cache) ==
    IF cache.empty THEN {} ELSE ArrayFieldsFrom(cache.elements, 1)

\* the orders in which "for field_lower in array_fields" may visit the set
ArrayFieldOrders(cache) ==
    LET fs == array_fields(cache)
    IN {o \in [1..Cardinality(fs) -> fs] : \A f \in fs : \E i \in DOMAIN o : o[i] = f}

\* Merge state: merged entries, the pages (lists are shared by reference, so
\* extending a list that merged took from a page changes that page), and
\* alias: merged key -> [page, pkey] of the page list it is the same object as.
MergeState(m, ps, al) == [merged |-> m, pages |-> ps, alias |-> al]

\* lines 654-671: one array field of one page
MergeArrayField(st, j, field_lower) ==
    LET page == st.pages[j]
        page_keys_lower == KeysLower(page.items)
    IN IF ~HasKey(page_keys_lower, field_lower) THEN st
       ELSE LET original_key == GetKey(page_keys_lower, field_lower)
                pv == GetKey(page.items, original_key)
                merged_keys_lower == KeysLower(st.merged)
            IN IF ~(original_key # "" /\ Truthy(pv)) THEN st
               ELSE IF HasKey(merged_keys_lower, field_lower)
               THEN LET mk == GetKey(merged_keys_lower, field_lower)
                        cur == GetKey(st.merged, mk)
                        al == IF IsList(cur) THEN st.alias ELSE DelKey(st.alias, mk)
                        base == IF IsList(cur) THEN cur.items ELSE <<cur>>
                        added == IF IsList(pv) THEN pv.items ELSE <<pv>>
                        grown == List(base \o added)
                        ps == IF HasKey(al, mk)
                              THEN LET a == GetKey(al, mk)
                                   IN [st.pages EXCEPT ![a.page] =
                                          Dict(SetKey(st.pages[a.page].items,
                                                      a.pkey, grown))]
                              ELSE st.pages
                    IN MergeState(SetKey(st.merged, mk, grown), ps, al)
               ELSE IF IsList(pv)
               THEN MergeState(SetKey(st.merged, original_key, pv), st.pages,
                               SetKey(st.alias, original_key,
                                      [page |-> j, pkey |-> original_key]))
               ELSE MergeState(SetKey(st.merged, original_key, List(<<pv>>)),
                               st.pages, DelKey(st.alias, original_key))

RECURSIVE MergeArrays(_, _, _, _)

\* lines 654-671 over the array fields, visited in the given order
MergeArrays(st, j, order, i) ==
    IF i > Len(order) THEN st
    ELSE MergeArrays(MergeArrayField(st, j, order[i]), j, order, i + 1)

\* variant of MergeScalarField that drops the "value is not None" test
MergeScalarFieldAnyValue(m, fields, key, value) ==
    IF Lower(key) \notin fields THEN SetKey(m, key, value) ELSE m

\* lines 673-676 for one (key, value) of the page
MergeScalarField(m, fields, key, value) ==
    IF Lower(key) \notin fields /\ ~IsNone(value) THEN SetKey(m, key, value) ELSE m

RECURSIVE MergeScalars(_, _, _, _)

\* lines 673-676: for key, value in page.items()
MergeScalars(m, es, fields, i) ==
    IF i > Len(es) THEN m
    ELSE MergeScalars(MergeScalarField(m, fields, es[i].key, es[i].val),
                      es, fields, i + 1)

RECURSIVE MergeFrom(_, _, _, _)

\* for page in pages[1:]
MergeFrom(st, j, order, fields) ==
    IF j > Len(st.pages) THEN st
    ELSE LET a == MergeArrays(st, j, order, 1)
             m == MergeScalars(a.merged, a.pages[j].items, fields, 1)
         IN MergeFrom(MergeState(m, a.pages, a.alias), j + 1, order, fields)

\* _merge_pages(pages, schema_cache): the merged dict and the pages as the
\* call leaves them; order is the visiting order of array_fields
merge_pages(ps, cache, order) ==
    IF Len(ps) = 0 THEN MergeState(<<>>, ps, <<>>)
    ELSE MergeFrom(MergeState(ps[1].items, ps, <<>>), 2, order, array_fields(cache))

-----------------------------------------------------------------------------
(* Conversion entry points (converter.py, __init__.py) *)

\* NUMERIC_TYPE_TO_DOCUMENT_TYPE.get(code): "" stands for None.  Of the code
\* table the model keeps the two codes its documents use.
NUMERIC_TYPE_TO_DOCUMENT_TYPE(code) ==
    CASE code = "380" -> "Invoice"
      [] code = "381" -> "CreditNote"
      [] OTHER -> ""

\* the JSON content of <document_type>_schema_cache.json
CacheFile(document_type) ==
    [InvoiceCache EXCEPT !.root_element_name = document_type]

\* _load_schema_cache: a type already in _schema_caches is returned from
\* there; otherwise the cache file is read (built first when absent) and
\* stored, or the failure is raised
load_schema_cache(document_type, caches, files) ==
    IF document_type \in caches
    THEN [raised |-> FALSE, cache |-> CacheFile(document_type), caches |-> caches]
    ELSE IF document_type \in files
    THEN [raised |-> FALSE, cache |-> CacheFile(document_type),
          caches |-> caches \cup {document_type}]
    ELSE [raised |-> TRUE, cache |-> EmptyCache, caches |-> caches]

\* number of parameters JsonMapper.map_json_to_document declares besides self
MapperParams == 1

\* JsonMapper.map_json_to_document called with the positional arguments args.
\* Python raises TypeError when their number differs from the declared one;
\* with one argument the method raises for a missing type, id or issueDate and
\* otherwise returns a single UblDocument, which the caller's two-name
\* unpacking rejects.
map_json_to_document(args) ==
    IF Len(args) # MapperParams
    THEN [raised |-> TRUE, error |-> "TypeError", doc |-> Null, dropped_fields |-> <<>>]
    ELSE IF ~Truthy(DictGet(args[1], "document_type"))
    THEN [raised |-> TRUE, error |-> "DocumentTypeError", doc |-> Null,
          dropped_fields |-> <<>>]
    ELSE IF ~Truthy(DictGet(args[1], "id")) \/ ~Truthy(DictGet(args[1], "issueDate"))
    THEN [raised |-> TRUE, error |-> "MappingError", doc |-> Null,
          dropped_fields |-> <<>>]
    ELSE [raised |-> TRUE, error |-> "ValueError", doc |-> Null, dropped_fields |-> <<>>]

NoError == [kind |-> "none", error_code |-> "", message |-> ""]

\* error_response given as a plain string
ErrorString(message) == [kind |-> "string", error_code |-> "", message |-> message]

\* Json2UblException.to_dict(): error_code, message, details
ErrorObject(error_code, message) ==
    [kind |-> "object", error_code |-> error_code, message |-> message]

\* a variant of FailureResponse that counts the failed input
FailureResponseCounted(total_inputs, error) ==
    [documents |-> <<>>,
     summary |-> [total_inputs |-> total_inputs + 1, files_created |-> 0,
                  document_types |-> <<>>],
     error_response |-> error]

\* the response of a call that produced no document
FailureResponse(total_inputs, error) ==
    [documents |-> <<>>,
     summary |-> [total_inputs |-> total_inputs, files_created |-> 0,
                  document_types |-> <<>>],
     error_response |-> error]

\* a variant of missing_document_type that treats only None as missing
missing_document_type_only_none(doc_type_raw) == IsNone(doc_type_raw)

\* "if not doc_type_raw": an absent, null or otherwise falsy document_type
missing_document_type(doc_type_raw) == ~Truthy(doc_type_raw)

\* lines 257-265: XmlValidator.validate returns for a tree the XSD accepts
\* ("valid") and raises when the XSD rejects it ("invalid") or cannot be
\* loaded ("raises"); the first line of the message is kept
validation_errors(xsd, document_type) ==
    CASE xsd = "valid"   -> <<>>
      [] xsd = "invalid" -> <<Str("XML validation failed for " \o document_type)>>
      [] OTHER           -> <<Str("XSD schema file missing")>>

\* convert_json_dict_to_xml_dict: the response and _schema_caches after it;
\* xsd is what the validator finds for the serialized tree
convert_json_dict_to_xml_dict(document_dict, caches, files, xsd) ==
    IF ~IsDict(document_dict)
    THEN [response |-> FailureResponse(0, ErrorString("Expected dict")),
          caches |-> caches]
    ELSE
    LET normalized_dict == normalize_keys_recursive(document_dict)
        doc_id == IF HasKey(normalized_dict.items, "id")
                  THEN GetKey(normalized_dict.items, "id") ELSE Str("UNKNOWN")
        doc_type_raw == DictGet(normalized_dict, "document_type")
        document_type == NUMERIC_TYPE_TO_DOCUMENT_TYPE(PyStr(doc_type_raw))
    IN IF missing_document_type(doc_type_raw)
       THEN [response |-> FailureResponse(0,
                 ErrorObject("MISSING_DOCUMENT_TYPE",
                             "Missing required field: document_type")),
             caches |-> caches]
       ELSE IF document_type = ""
       THEN [response |-> FailureResponse(0,
                 ErrorObject("INVALID_DOCUMENT_TYPE", "Invalid document_type")),
             caches |-> caches]
       ELSE
       LET loaded == load_schema_cache(document_type, caches, files)
           got == map_json_to_document(<<normalized_dict, Str(document_type)>>)
       IN IF loaded.raised
          THEN [response |-> FailureResponse(0,
                    ErrorString("Failed to convert document: FileNotFoundError")),
                caches |-> loaded.caches]
          ELSE IF got.raised
          THEN [response |-> FailureResponse(0,
                    ErrorString("Failed to convert document: " \o got.error)),
                caches |-> loaded.caches]
          ELSE [response |->
                    [documents |-> <<[id |-> doc_id,
                                      xml |-> serialize(got.doc, loaded.cache),
                                      unmapped_fields |-> got.dropped_fields,
                                      validation_errors |->
                                          IF validation_errors(xsd, document_type) = <<>>
                                          THEN Null
                                          ELSE List(validation_errors(xsd,
                                                                      document_type))]>>,
                     summary |-> [total_inputs |-> 1, files_created |-> 0,
                                  document_types |-> <<Entry(document_type, 1)>>],
                     error_response |-> NoError],
                caches |-> loaded.caches]

\* document_types[dtype] = document_types.get(dtype, 0) + count
CountType(document_types, dtype, count) ==
    SetKey(document_types, dtype,
           (IF HasKey(document_types, dtype) THEN GetKey(document_types, dtype) ELSE 0)
           + count)

RECURSIVE ConvertEach(_, _, _, _, _, _, _)

\* __init__.py lines 142-185: one conversion per list entry, in list order;
\* the first response that carries an error is returned as it is
ConvertEach(list_of_dicts, i, caches, files, xsd, documents, document_types) ==
    IF i > Len(list_of_dicts)
    THEN [documents |-> documents,
          summary |-> [total_inputs |-> Len(list_of_dicts), files_created |-> 0,
                       document_types |-> document_types],
          error_response |-> NoError]
    ELSE LET r == convert_json_dict_to_xml_dict(list_of_dicts[i], caches, files, xsd)
         IN IF r.response.error_response.kind # "none" THEN r.response
            ELSE IF Len(r.response.documents) = 0
            THEN FailureResponse(Len(list_of_dicts),
                     ErrorString("No valid documents in conversion response"))
            ELSE ConvertEach(list_of_dicts, i + 1, r.caches, files, xsd,
                     Append(documents, r.response.documents[1]),
                     CountType(document_types,
                               r.response.summary.document_types[1].key,
                               r.response.summary.document_types[1].val))

\* json_dict_to_ubl_xml(list_of_dicts): a converter of its own, no cache loaded
json_dict_to_ubl_xml(list_of_dicts, files, xsd) ==
    ConvertEach(list_of_dicts, 1, {}, files, xsd, <<>>, <<>>)

RECURSIVE GroupKeys(_, _, _)

\* lines 601-607: the keys of grouped, in order of first appearance; a
\* document without a truthy id is skipped
GroupKeys(documents, i, keys) ==
    IF i > Len(documents) THEN keys
    ELSE LET doc_id == DictGet(documents[i], "id")
         IN GroupKeys(documents, i + 1,
                IF Truthy(doc_id) /\ \A j \in DOMAIN keys : keys[j] # doc_id
                THEN Append(keys, doc_id) ELSE keys)

RECURSIVE MergeGroups(_, _, _, _, _, _, _)

\* lines 609-625: one merged document per group; the cache of the first
\* page's type is loaded, a group whose cache cannot be loaded is skipped
MergeGroups(documents, keys, i, caches, files, order, merged_documents) ==
    IF i > Len(keys)
    THEN [raised |-> FALSE, merged_documents |-> merged_documents, caches |-> caches]
    ELSE LET group == SelectSeq(documents, LAMBDA d : DictGet(d, "id") = keys[i])
             document_type ==
                 NUMERIC_TYPE_TO_DOCUMENT_TYPE(PyStr(DictGet(group[1], "document_type")))
         IN With(IF document_type # ""
                 THEN load_schema_cache(document_type, caches, files)
                 ELSE [raised |-> FALSE, cache |-> EmptyCache, caches |-> caches],
                 LAMBDA loaded :
                     MergeGroups(documents, keys, i + 1, loaded.caches, files, order,
                         IF loaded.raised THEN merged_documents
                         ELSE Append(merged_documents,
                                  Dict(merge_pages(group, loaded.cache,
                                           IF loaded.cache.empty THEN <<>>
                                           ELSE order).merged))))

\* _group_and_merge_documents(documents); doc.get("id") raises for an entry
\* that is not a dict
group_and_merge_documents(documents, caches, files, order) ==
    LET normalized_documents ==
            [i \in DOMAIN documents |-> normalize_keys_recursive(documents[i])]
    IN IF \E i \in DOMAIN documents : ~IsDict(documents[i])
       THEN [raised |-> TRUE, merged_documents |-> <<>>, caches |-> caches]
       ELSE MergeGroups(normalized_documents, GroupKeys(normalized_documents, 1, <<>>),
                        1, caches, files, order, <<>>)

RECURSIVE ConvertMerged(_, _, _, _, _, _, _, _)

\* lines 359-417: one conversion per merged document; a failed one is skipped
\* and the first failure is kept for the case that nothing converts
ConvertMerged(merged_docs, i, caches, files, xsd, documents, document_types, first_error_response) ==
    IF i > Len(merged_docs)
    THEN [response |->
              IF documents = <<>> /\ first_error_response # NoError
              THEN FailureResponse(0, first_error_response)
              ELSE [documents |-> documents,
                    summary |-> [total_inputs |-> Len(documents), files_created |-> 0,
                                 document_types |-> document_types],
                    error_response |-> NoError],
          caches |-> caches]
    ELSE With(convert_json_dict_to_xml_dict(merged_docs[i], caches, files, xsd),
              LAMBDA r :
                  IF r.response.error_response # NoError
                  THEN ConvertMerged(merged_docs, i + 1, r.caches, files, xsd,
                           documents, document_types,
                           IF first_error_response = NoError
                           THEN r.response.error_response ELSE first_error_response)
                  ELSE IF r.response.documents = <<>>
                  THEN ConvertMerged(merged_docs, i + 1, r.caches, files, xsd,
                           documents, document_types, first_error_response)
                  ELSE ConvertMerged(merged_docs, i + 1, r.caches, files, xsd,
                           Append(documents, r.response.documents[1]),
                           CountType(document_types,
                                     r.response.summary.document_types[1].key,
                                     r.response.summary.document_types[1].val),
                           first_error_response))

\* the content of a JSON file that does not exist
NoFile == [k |-> "nofile", s |-> "", items |-> <<>>]

\* convert_json_file_to_xml_dict(json_file_path); data is the content of the file
convert_json_file_to_xml_dict(data, caches, files, order, xsd) ==
    IF data = NoFile
    THEN [response |-> FailureResponse(0,
              ErrorString("Failed to convert JSON file: JSON file not found")),
          caches |-> caches]
    ELSE With(group_and_merge_documents(
                  IF IsList(data) THEN data.items ELSE <<data>>, caches, files, order),
              LAMBDA grouped :
                  IF grouped.raised
                  THEN [response |-> FailureResponse(0,
                            ErrorString("Failed to convert JSON file: AttributeError")),
                        caches |-> grouped.caches]
                  ELSE ConvertMerged(grouped.merged_documents, 1, grouped.caches,
                                     files, xsd, <<>>, <<>>, NoError))

RECURSIVE WriteDocuments(_, _, _, _, _, _)

\* lines 489-563: each document is written to a temp file that is moved to
\* <json_name>_<id>_<type>.xml.  fail_at is the document whose write meets an
\* IOError (open, write or replace); its temp file is removed, the files in
\* created_files are deleted and the error goes on to the caller
WriteDocuments(docs, k, disk, fail_at, created_files, documents) ==
    IF k > Len(docs)
    THEN [raised |-> FALSE, disk |-> disk, documents |-> documents,
          files_created |-> Len(created_files)]
    ELSE LET file_path == [id |-> docs[k].id, type |-> docs[k].xml.tag,
                           suffix |-> ".xml"]
             temp_file_path == [file_path EXCEPT !.suffix = ".tmp"]
         IN IF fail_at = k
            THEN [raised |-> TRUE,
                  disk |-> (disk \ {temp_file_path})
                              \ {created_files[j] : j \in DOMAIN created_files},
                  documents |-> <<>>, files_created |-> 0]
            ELSE WriteDocuments(docs, k + 1,
                     (disk \ {temp_file_path}) \cup {file_path}, fail_at,
                     Append(created_files, file_path),
                     Append(documents, [id |-> docs[k].id,
                                        unmapped_fields |-> docs[k].unmapped_fields]))

\* convert_json_file_to_xml_files(json_file_path, output_dir): the response,
\* _schema_caches and the files of output_dir after it
convert_json_file_to_xml_files(data, writable, disk, fail_at, caches, files, order, xsd) ==
    IF ~writable
    THEN [response |-> FailureResponse(0,
              ErrorString("Cannot write to output directory")),
          caches |-> caches, disk |-> disk]
    ELSE With(convert_json_file_to_xml_dict(data, caches, files, order, xsd),
              LAMBDA r :
                  IF r.response.error_response # NoError
                  THEN [response |-> r.response, caches |-> r.caches, disk |-> disk]
                  ELSE With(WriteDocuments(r.response.documents, 1, disk, fail_at,
                                           <<>>, <<>>),
                            LAMBDA w :
                                IF w.raised
                                THEN [response |-> FailureResponse(0,
                                          ErrorString("Failed to write XML files: IOError")),
                                      caches |-> r.caches, disk |-> w.disk]
                                ELSE [response |->
                                          [documents |-> w.documents,
                                           summary |-> [r.response.summary EXCEPT
                                               !.files_created = w.files_created],
                                           error_response |-> NoError],
                                      caches |-> r.caches, disk |-> w.disk]))

-----------------------------------------------------------------------------
(* Bounds and input universes *)

MaxPages == 3

MaxItems == 2

\* value of a variable the running specification does not use
Unused == "unused"

ItemNames == <<"b", "c", "d", "e">>

\* the lists <<>>, <<b>>, <<b, c>>, ... of at most MaxItems strings
ItemLists == {List([i \in 1..n |-> Str(ItemNames[i])]) : n \in 0..MaxItems}

NoteValues == {Null, Str("a")} \cup ItemLists

DueValues == {Null, Str("d1"), Str("d2")}

\* pages of one document: the id, and a note or a due date under either of
\* two spellings.  No page holds two keys that are equal up to case.
PageUniverse ==
    {Dict(<<Entry("id", Str("X"))>>)}
    \cup {Dict(<<Entry("id", Str("X")), Entry("note", v)>>) : v \in NoteValues}
    \cup {Dict(<<Entry("id", Str("X")), Entry("Note", v)>>) : v \in ItemLists}
    \cup {Dict(<<Entry("id", Str("X")), Entry(key, v)>>) :
              key \in {"duedate", "DueDate"}, v \in DueValues}

PageLists == UNION {[1..n -> PageUniverse] : n \in 1..MaxPages}

-----------------------------------------------------------------------------
(* Specification of the page merger: _merge_pages applied to bounded pages *)

InitMerge ==
    /\ loader = Unused
    /\ output_files = Unused
    /\ pc = "start"
    /\ schema_cache \in {InvoiceCache, EmptyCache}
    /\ pages \in PageLists
    /\ pages_after = Unused
    /\ merged = Unused
    /\ document = Unused /\ document2 = Unused /\ normalized = Unused
    /\ mapped = Unused /\ xml = Unused /\ xml2 = Unused
    /\ request = Unused /\ response = Unused
    /\ schema_caches = {} /\ cache_files = {}

\* merged = Json2UblConverter._merge_pages(pages, schema_cache); the set
\* array_fields is visited in some order
MergePages ==
    /\ pc = "start"
    /\ \E order \in ArrayFieldOrders(schema_cache) :
           LET r == merge_pages(pages, schema_cache, order)
           IN /\ merged' = Dict(r.merged)
              /\ pages_after' = r.pages
    /\ pc' = "done"
    /\ UNCHANGED <<loader, output_files, schema_cache, pages, document, document2,
                   normalized, mapped, xml, xml2, request, response,
                   schema_caches, cache_files>>

NextMerge == MergePages

SpecMerge == InitMerge /\ [][NextMerge]_vars

-----------------------------------------------------------------------------
(* Claims on the page merger *)

\* the value a dict holds for a field, whatever the letter case of its key
FieldValue(es, field_lower) ==
    IF HasKey(KeysLower(es), field_lower)
    THEN GetKey(es, GetKey(KeysLower(es), field_lower))
    ELSE Null

\* what a value contributes to an accumulated array: a list its items, an
\* empty (falsy) value nothing, any other value itself
Contribution(v) ==
    IF IsList(v) THEN v.items ELSE IF Truthy(v) THEN <<v>> ELSE <<>>

RECURSIVE ConcatField(_, _, _)

ConcatField(ps, i, field_lower) ==
    IF i > Len(ps) THEN <<>>
    ELSE Contribution(FieldValue(ps[i].items, field_lower))
         \o ConcatField(ps, i + 1, field_lower)

\* C7: for every top-level field with maxOccurs "unbounded", the merged value
\* is the concatenation, in page order, of the field's non-empty values over
\* all pages (a list gives its items, a non-list value itself as one item).
C7_ArraysAccumulateInPageOrder ==
    pc = "done" =>
        \A f \in array_fields(schema_cache) :
            Contribution(FieldValue(merged.items, f)) = ConcatField(pages, 1, f)

PageKeys == UNION {KeysOf(pages[j].items) : j \in DOMAIN pages}

\* pages after the first that hold key with a non-null value
SuppliedAfterFirst(key) ==
    {j \in 2..Len(pages) :
        HasKey(pages[j].items, key) /\ ~IsNone(GetKey(pages[j].items, key))}

MaxOf(S) == CHOOSE x \in S : \A y \in S : y <= x

\* C8: for every top-level key that is not array-typed in the schema, the
\* merged value is the value of the last page after the first that holds the
\* key with a non-null value; when there is no such page the first page's
\* value (or absence) is kept, so a later null never overwrites a value.
C8_LaterPagesWinForScalars ==
    pc = "done" =>
        \A key \in PageKeys :
            Lower(key) \notin array_fields(schema_cache) =>
                IF SuppliedAfterFirst(key) # {}
                THEN /\ HasKey(merged.items, key)
                     /\ GetKey(merged.items, key)
                          = GetKey(pages[MaxOf(SuppliedAfterFirst(key))].items, key)
                ELSE IF HasKey(pages[1].items, key)
                THEN /\ HasKey(merged.items, key)
                     /\ GetKey(merged.items, key) = GetKey(pages[1].items, key)
                ELSE ~HasKey(merged.items, key)

\* three pages: d1, then d2, then null; the merged due date is d2
C8_Witness ==
    /\ pc = "done"
    /\ ~schema_cache.empty
    /\ Len(pages) = 3
    /\ DictGet(pages[1], "duedate") = Str("d1")
    /\ DictGet(pages[2], "duedate") = Str("d2")
    /\ HasKey(pages[3].items, "duedate") /\ IsNone(DictGet(pages[3], "duedate"))
    /\ DictGet(merged, "duedate") = Str("d2")

\* C9: the merged document never holds two keys that differ only by letter
\* case (every page given holds no two such keys).
C9_OneKeyPerField ==
    pc = "done" =>
        \A i, j \in DOMAIN merged.items :
            i # j => Lower(merged.items[i].key) # Lower(merged.items[j].key)

\* C11: without a schema cache, for two pages that each carry a list under
\* the same key, the merged list holds the items of both pages, first page
\* first, and the id keeps its value.
C11_ListsMergeWithoutSchema ==
    (pc = "done" /\ schema_cache.empty /\ Len(pages) = 2) =>
        \A key \in KeysOf(pages[1].items) \cap KeysOf(pages[2].items) :
            IF IsList(GetKey(pages[1].items, key)) /\ IsList(GetKey(pages[2].items, key))
            THEN /\ HasKey(merged.items, key)
                 /\ IsList(GetKey(merged.items, key))
                 /\ GetKey(merged.items, key).items
                      = GetKey(pages[1].items, key).items
                            \o GetKey(pages[2].items, key).items
            ELSE key = "id" => GetKey(merged.items, key) = GetKey(pages[1].items, key)

-----------------------------------------------------------------------------
(* Documents *)

IdOptions ==
    {<<>>, <<Entry("ID", Str("x"))>>, <<Entry("id", Null)>>,
     <<Entry("id", Dict(<<Entry("name", Str("n")), Entry("extra", Str("e"))>>))>>}

NoteOptions ==
    {<<>>, <<Entry("Note", Str("a"))>>, <<Entry("note", Null)>>}
    \cup {<<Entry("note", l)>> : l \in ItemLists}

PartyOptions ==
    {<<>>,
     <<Entry("Party", Dict(<<Entry("Name", Str("n"))>>))>>,
     <<Entry("party", Dict(<<Entry("Extra", Str("e")), Entry("name", Null)>>))>>}

LineOptions ==
    {<<>>,
     <<Entry("InvoiceLine", List(<<Dict(<<Entry("ID", Str("L1"))>>)>>))>>,
     <<Entry("invoiceline", Dict(<<Entry("id", Str("L1"))>>))>>}

ExtraOptions == {<<>>, <<Entry("Extra", Str("e"))>>}

TypeOptions == {<<>>, <<Entry("document_type", Str("380"))>>}

Documents ==
    {Dict(i \o n \o p \o l \o e \o t) :
        i \in IdOptions, n \in NoteOptions, p \in PartyOptions,
        l \in LineOptions, e \in ExtraOptions, t \in TypeOptions}

-----------------------------------------------------------------------------
(* Specification of the component pipeline: key normalisation, schema driven *)
(* field extraction, serialization                                           *)

InitPipeline ==
    /\ loader = Unused
    /\ output_files = Unused
    /\ pc = "start"
    /\ schema_cache = InvoiceCache
    /\ document \in Documents
    /\ normalized = Unused /\ mapped = Unused /\ xml = Unused
    /\ document2 = Unused /\ xml2 = Unused
    /\ pages = Unused /\ pages_after = Unused
    /\ merged = Unused
    /\ request = Unused /\ response = Unused
    /\ schema_caches = {} /\ cache_files = {}

\* normalized_dict = self._normalize_keys_recursive(document_dict)
NormalizeKeys ==
    /\ pc = "start"
    /\ normalized' = normalize_keys_recursive(document)
    /\ pc' = "normalized"
    /\ UNCHANGED <<loader, output_files, schema_cache, pages, pages_after, merged, document,
                   document2, mapped, xml, xml2, request, response, schema_caches,
                   cache_files>>

\* SchemaFieldExtractor.validate_and_extract(normalized_dict, elements)
ExtractFields ==
    /\ pc = "normalized"
    /\ mapped' = validate_and_extract(normalized, schema_cache.elements, "")
    /\ pc' = "mapped"
    /\ UNCHANGED <<loader, output_files, schema_cache, pages, pages_after, merged, document,
                   document2, normalized, xml, xml2, request, response,
                   schema_caches, cache_files>>

\* XmlSerializer(schema_cache).serialize(cleaned_json)
SerializeMapped ==
    /\ pc = "mapped"
    /\ xml' = serialize(mapped.cleaned_json, schema_cache)
    /\ pc' = "done"
    /\ UNCHANGED <<loader, output_files, schema_cache, pages, pages_after, merged, document,
                   document2, normalized, mapped, xml2, request, response,
                   schema_caches, cache_files>>

NextPipeline == NormalizeKeys \/ ExtractFields \/ SerializeMapped

SpecPipeline == InitPipeline /\ [][NextPipeline]_vars

-----------------------------------------------------------------------------
(* Claims on the pipeline *)

\* some child element named name shows the scalar v as its text or as the
\* value of one of its attributes
ScalarShown(v, name, children) ==
    \E i \in DOMAIN children :
        /\ children[i].tag = name
        /\ \/ children[i].text = <<PyStr(v)>>
           \/ \E a \in DOMAIN children[i].attrib :
                  children[i].attrib[a].val = PyStr(v)

RECURSIVE FieldsShown(_, _, _)
RECURSIVE ValueShown(_, _, _)

ValueShown(v, info, children) ==
    IF IsNone(v) THEN TRUE
    ELSE IF IsDict(v)
    THEN \E i \in DOMAIN children :
            /\ children[i].tag = info.name
            /\ FieldsShown(v, info.nested_elements, children[i].children)
    ELSE IF IsList(v)
    THEN \A i \in DOMAIN v.items : ValueShown(v.items[i], info, children)
    ELSE ScalarShown(v, info.name, children)

\* every non-null value on a schema recognised path of data_dict is shown
FieldsShown(data_dict, spec, children) ==
    \A i \in DOMAIN data_dict.items :
        SpecHas(spec, Lower(data_dict.items[i].key)) =>
            ValueShown(data_dict.items[i].val,
                       SpecGet(spec, Lower(data_dict.items[i].key)), children)

\* C2: every non-null value on a schema recognised path of the input document
\* is, after mapping and serializing, the text or an attribute value of the
\* corresponding element.
C2_RoundTripPreservesFields ==
    pc = "done" => FieldsShown(document, schema_cache.elements, xml.children)

ElementsNamed(children, name) == SelectSeq(children, LAMBDA c : c.tag = name)

\* C4: for a top-level field declared with maxOccurs "unbounded", a single
\* non-list value yields exactly one element and a list of N values yields N
\* elements in list order.
C4_CardinalityFidelity ==
    pc = "done" =>
        \A i \in DOMAIN schema_cache.elements :
            LET info == schema_cache.elements[i]
                v == DictGet(normalized, info.key)
                els == ElementsNamed(xml.children, info.name)
            IN (info.maxOccurs = "unbounded" /\ ~IsNone(v)) =>
                   IF IsList(v)
                   THEN /\ Len(els) = Len(v.items)
                        /\ \A n \in DOMAIN v.items :
                               ~IsDict(v.items[n]) => els[n].text = TextOf(v.items[n])
                   ELSE Len(els) = 1

\* C5: a null under a key the schema declares gives an empty element when the
\* element is required (minOccurs "1") and no element when it is optional.
C5_NullPreservation ==
    pc = "done" =>
        \A i \in DOMAIN schema_cache.elements :
            LET info == schema_cache.elements[i]
                els == ElementsNamed(xml.children, info.name)
            IN (HasKey(normalized.items, info.key)
                    /\ IsNone(GetKey(normalized.items, info.key))) =>
                   IF info.minOccurs = "1"
                   THEN Len(els) = 1 /\ els[1].text = <<"">> /\ els[1].children = <<>>
                   ELSE els = <<>>

DroppedPaths == {mapped.dropped_fields[i] : i \in DOMAIN mapped.dropped_fields}

\* C6: a top-level key is listed among the dropped fields exactly when the
\* schema declares no key equal to it up to case, and the reserved key
\* document_type is never listed.
C6_DroppedFieldCompleteness ==
    pc = "done" =>
        /\ \A key \in KeysOf(normalized.items) \ {"document_type"} :
               (key \in DroppedPaths) <=> ~SpecHas(schema_cache.elements, key)
        /\ "document_type" \notin DroppedPaths

-----------------------------------------------------------------------------
(* Specification of the serializer alone: two documents that differ only in *)
(* the order of their keys, serialized with the same schema cache            *)

MaxKeys == 3

Perms(n) == {p \in [1..n -> 1..n] : \A i, j \in 1..n : i # j => p[i] # p[j]}

RECURSIVE KeyOrderVariants(_)

\* the values equal to v up to the order of the keys of its dicts, at any depth
KeyOrderVariants(v) ==
    IF IsDict(v) \/ IsList(v)
    THEN LET n == Len(v.items)
             Part(i) == IF IsDict(v) THEN KeyOrderVariants(v.items[i].val)
                        ELSE KeyOrderVariants(v.items[i])
             inner == {w \in [1..n -> UNION {Part(i) : i \in 1..n}] :
                          \A i \in 1..n : w[i] \in Part(i)}
         IN IF IsDict(v)
            THEN {Dict([i \in 1..n |-> Entry(v.items[p[i]].key, w[p[i]])]) :
                     p \in Perms(n), w \in inner}
            ELSE {List(w) : w \in inner}
    ELSE {v}

SerializerDocuments == {d \in Documents : Len(d.items) <= MaxKeys}

InitSerialize ==
    /\ loader = Unused
    /\ output_files = Unused
    /\ pc = "start"
    /\ schema_cache \in {InvoiceCache, EmptyCache}
    /\ document \in SerializerDocuments
    /\ document2 \in KeyOrderVariants(document)
    /\ xml = Unused /\ xml2 = Unused
    /\ normalized = Unused /\ mapped = Unused
    /\ pages = Unused /\ pages_after = Unused
    /\ merged = Unused
    /\ request = Unused /\ response = Unused
    /\ schema_caches = {} /\ cache_files = {}

\* XmlSerializer(schema_cache).serialize(doc) for each of the two documents
SerializeBoth ==
    /\ pc = "start"
    /\ xml' = serialize(document, schema_cache)
    /\ xml2' = serialize(document2, schema_cache)
    /\ pc' = "done"
    /\ UNCHANGED <<loader, output_files, schema_cache, pages, pages_after, merged, document,
                   document2, normalized, mapped, request, response, schema_caches,
                   cache_files>>

NextSerialize == SerializeBoth

SpecSerialize == InitSerialize /\ [][NextSerialize]_vars

RECURSIVE Shape(_)

\* an element reduced to its tag and the shapes of its children, in order
Shape(el) ==
    [tag |-> el.tag, children |-> [i \in DOMAIN el.children |-> Shape(el.children[i])]]

\* position in the top-level schema of the element named tag, 0 if undeclared
DeclaredAt(tag) ==
    LET at == {i \in DOMAIN schema_cache.elements : schema_cache.elements[i].name = tag}
    IN IF at = {} THEN 0 ELSE CHOOSE i \in at : TRUE

\* C3: two documents that differ only in key order serialize to the same
\* sequence of child elements at every level, and the children of the root
\* follow the declaration order of the schema.
C3_SchemaOrderDeterminism ==
    pc = "done" =>
        /\ Shape(xml) = Shape(xml2)
        /\ ~schema_cache.empty =>
               \A i, j \in DOMAIN xml.children :
                   i < j => DeclaredAt(xml.children[i].tag)
                                <= DeclaredAt(xml.children[j].tag)

-----------------------------------------------------------------------------
(* Specification of the conversion entry points: calls on one converter *)

MaxDocs == 2

ConverterDocuments ==
    {Dict(i \o t \o l) :
        i \in {<<>>, <<Entry("ID", Str("X"))>>, <<Entry("id", Str("Y"))>>},
        t \in {<<>>} \cup {<<Entry("document_type", c)>> :
                              c \in {Str("380"), Num("380"), Str("381"), Str("999"),
                                     Null, Str(""), Num("0")}},
        l \in {<<>>,
               <<Entry("InvoiceLine", List(<<Dict(<<Entry("ID", Str("L1"))>>)>>))>>}}

\* arguments that are not dicts
NonDicts == {List(<<>>), Str("x")}

\* entries of the lists given to the list API: pages with an id and one line
ListEntries ==
    {d \in ConverterDocuments :
        /\ HasKey(d.items, "ID") \/ HasKey(d.items, "id")
        /\ Truthy(DictGet(d, "document_type"))
        /\ HasKey(d.items, "InvoiceLine")}

DocumentLists == UNION {[1..n -> ListEntries] : n \in 0..MaxDocs}

DocumentTypes == {"Invoice", "CreditNote"}

\* what the XSD validator finds for a serialized tree
XsdOutcomes == {"valid", "invalid", "raises"}

InitConvert ==
    /\ loader = Unused
    /\ output_files = Unused
    /\ pc = "idle"
    /\ cache_files \in SUBSET DocumentTypes
    /\ schema_caches = {}
    /\ request = Unused /\ response = Unused
    /\ schema_cache = Unused
    /\ pages = Unused /\ pages_after = Unused /\ merged = Unused
    /\ document = Unused /\ document2 = Unused /\ normalized = Unused
    /\ mapped = Unused /\ xml = Unused /\ xml2 = Unused

\* converter.convert_json_dict_to_xml_dict(document_dict)
ConvertDict ==
    \E d \in ConverterDocuments \cup NonDicts, xsd \in XsdOutcomes :
        LET r == convert_json_dict_to_xml_dict(d, schema_caches, cache_files, xsd)
        IN /\ request' = [api |-> "convert_json_dict_to_xml_dict", arg |-> d,
                          xsd |-> xsd]
           /\ response' = r.response
           /\ schema_caches' = r.caches
           /\ pc' = "returned"
           /\ UNCHANGED <<loader, output_files, schema_cache, pages, pages_after, merged,
                          document, document2, normalized, mapped, xml, xml2,
                          cache_files>>

\* json2ubl.json_dict_to_ubl_xml(list_of_dicts): a module-level function that
\* makes a converter of its own, so a behaviour holds one call of it
ConvertList ==
    \E l \in DocumentLists, xsd \in XsdOutcomes :
        /\ pc = "idle"
        /\ request' = [api |-> "json_dict_to_ubl_xml", arg |-> List(l), xsd |-> xsd]
        /\ response' = json_dict_to_ubl_xml(l, cache_files, xsd)
        /\ pc' = "returned"
        /\ UNCHANGED <<loader, output_files, schema_cache, pages, pages_after, merged,
                       document, document2, normalized, mapped, xml, xml2,
                       schema_caches, cache_files>>

NextConvert == ConvertDict

SpecConvert == InitConvert /\ [][NextConvert]_vars

NextList == ConvertList

SpecList == InitConvert /\ [][NextList]_vars

\* the document type a dict resolves to ("" when its code is missing or unknown)
ResolvedType(d) ==
    LET raw == DictGet(normalize_keys_recursive(d), "document_type")
    IN IF Truthy(raw) THEN NUMERIC_TYPE_TO_DOCUMENT_TYPE(PyStr(raw)) ELSE ""

\* a dict with a code of the code table whose schema cache can be loaded
Convertible(d) ==
    IsDict(d) /\ ResolvedType(d) # "" /\ ResolvedType(d) \in cache_files

\* C1: for every input dict with a code of the code table and a loadable
\* schema cache, convert_json_dict_to_xml_dict returns no error, exactly one
\* document carrying the input id, and the summary {1, 0, {type: 1}}.
C1_ValidInputConverts ==
    (pc = "returned" /\ request.api = "convert_json_dict_to_xml_dict"
        /\ Convertible(request.arg)) =>
        /\ response.error_response = NoError
        /\ Len(response.documents) = 1
        /\ response.documents[1].id
             = (IF HasKey(normalize_keys_recursive(request.arg).items, "id")
                THEN DictGet(normalize_keys_recursive(request.arg), "id")
                ELSE Str("UNKNOWN"))
        /\ response.summary
             = [total_inputs |-> 1, files_created |-> 0,
                document_types |-> <<Entry(ResolvedType(request.arg), 1)>>]

\* the ids of the entries of a list of dicts
IdsOf(l) == {DictGet(normalize_keys_recursive(l[i]), "id") : i \in DOMAIN l}

\* C10: for a list of convertible dicts in which entries share an id,
\* json_dict_to_ubl_xml returns one document per distinct id.
C10_ListApiMergesPages ==
    (pc = "returned" /\ request.api = "json_dict_to_ubl_xml"
        /\ Len(request.arg.items) >= 2
        /\ \A i \in DOMAIN request.arg.items :
               /\ Convertible(request.arg.items[i])
               /\ Truthy(DictGet(normalize_keys_recursive(request.arg.items[i]), "id"))
        /\ Cardinality(IdsOf(request.arg.items)) < Len(request.arg.items)) =>
        /\ response.error_response = NoError
        /\ Len(response.documents) = Cardinality(IdsOf(request.arg.items))

\* the document_type of a dict after key normalisation (None when absent)
TypeRaw(d) == DictGet(normalize_keys_recursive(d), "document_type")

\* the response carries the error object with this code and no document
ErrorObjectReturned(error_code) ==
    /\ response.documents = <<>>
    /\ response.summary.total_inputs = 0
    /\ response.error_response.kind = "object"
    /\ response.error_response.error_code = error_code
    /\ response.error_response.message # ""

\* C12 as stated: for a dict, convert_json_dict_to_xml_dict returns the error
\* object MISSING_DOCUMENT_TYPE when document_type is absent or null, the
\* error object INVALID_DOCUMENT_TYPE when it is present and its string form
\* is not a key of the code table, and no error object otherwise.
C12_AsStated ==
    (pc = "returned" /\ request.api = "convert_json_dict_to_xml_dict"
        /\ IsDict(request.arg)) =>
        LET raw == TypeRaw(request.arg)
            known == NUMERIC_TYPE_TO_DOCUMENT_TYPE(PyStr(raw)) # ""
        IN /\ IsNone(raw) => ErrorObjectReturned("MISSING_DOCUMENT_TYPE")
           /\ (~IsNone(raw) /\ ~known) => ErrorObjectReturned("INVALID_DOCUMENT_TYPE")
           /\ (~IsNone(raw) /\ known) => response.error_response.kind # "object"

\* C12: for a dict, convert_json_dict_to_xml_dict returns the error object
\* MISSING_DOCUMENT_TYPE when document_type is absent, null or any other
\* falsy value ("", 0), the error object INVALID_DOCUMENT_TYPE when it is
\* truthy and its string form is not a key of the code table, and no error
\* object otherwise; in both error cases documents is empty and total_inputs
\* is 0.
C12_DocumentTypeErrorsAreValues ==
    (pc = "returned" /\ request.api = "convert_json_dict_to_xml_dict"
        /\ IsDict(request.arg)) =>
        LET raw == TypeRaw(request.arg)
            known == NUMERIC_TYPE_TO_DOCUMENT_TYPE(PyStr(raw)) # ""
        IN /\ ~Truthy(raw) => ErrorObjectReturned("MISSING_DOCUMENT_TYPE")
           /\ (Truthy(raw) /\ ~known) => ErrorObjectReturned("INVALID_DOCUMENT_TYPE")
           /\ (Truthy(raw) /\ known) => response.error_response.kind # "object"

\* a call with document_type 0 has returned MISSING_DOCUMENT_TYPE
C12_Witness ==
    /\ pc = "returned" /\ request.api = "convert_json_dict_to_xml_dict"
    /\ IsDict(request.arg)
    /\ TypeRaw(request.arg) = Num("0")
    /\ ErrorObjectReturned("MISSING_DOCUMENT_TYPE")

-----------------------------------------------------------------------------
(* Specification of the file entry points: one call on a converter that      *)
(* earlier calls have left with any of the loadable schema caches loaded     *)

\* entries of a batch file: pages with or without an id, with a code of the
\* code table or an unknown one, and an entry that is not a dict
BatchEntries ==
    {d \in ConverterDocuments :
        /\ HasKey(d.items, "InvoiceLine")
        /\ DictGet(d, "document_type") \in {Str("380"), Str("999")}} \cup {Str("x")}

\* contents of the JSON file: a list of entries, one dict, or no file at all
BatchFiles ==
    {List(l) : l \in UNION {[1..n -> BatchEntries] : n \in 0..MaxDocs}}
        \cup {d \in BatchEntries : IsDict(d)} \cup {NoFile}

\* the output directory before the call: empty, or holding an earlier output
OutputDirs == {{}, {[id |-> Str("X"), type |-> "Invoice", suffix |-> ".xml"]}}

InitBatch ==
    /\ loader = Unused
    /\ pc = "idle"
    /\ cache_files \in SUBSET DocumentTypes
    /\ schema_caches \in SUBSET cache_files
    /\ output_files \in OutputDirs
    /\ request = Unused /\ response = Unused
    /\ schema_cache = Unused
    /\ pages = Unused /\ pages_after = Unused /\ merged = Unused
    /\ document = Unused /\ document2 = Unused /\ normalized = Unused
    /\ mapped = Unused /\ xml = Unused /\ xml2 = Unused

\* converter.convert_json_file_to_xml_dict(json_file_path)
ConvertFile ==
    /\ pc = "idle"
    /\ \E data \in BatchFiles, order \in ArrayFieldOrders(InvoiceCache),
          xsd \in XsdOutcomes :
           \E r \in {convert_json_file_to_xml_dict(data, schema_caches, cache_files,
                                                   order, xsd)} :
               /\ request' = [api |-> "convert_json_file_to_xml_dict", arg |-> data,
                              xsd |-> xsd]
               /\ response' = r.response
               /\ schema_caches' = r.caches
    /\ pc' = "returned"
    /\ UNCHANGED <<schema_cache, pages, pages_after, merged, document, document2,
                   normalized, mapped, xml, xml2, cache_files, output_files, loader>>

\* converter.convert_json_file_to_xml_files(json_file_path, output_dir);
\* fail_at = 0 when no write meets an error
ConvertFileToFiles ==
    /\ pc = "idle"
    /\ \E data \in BatchFiles, order \in ArrayFieldOrders(InvoiceCache),
          xsd \in XsdOutcomes, writable \in BOOLEAN, fail_at \in 0..MaxDocs :
           \E r \in {convert_json_file_to_xml_files(data, writable, output_files,
                         fail_at, schema_caches, cache_files, order, xsd)} :
               /\ request' = [api |-> "convert_json_file_to_xml_files", arg |-> data,
                              xsd |-> xsd, writable |-> writable,
                              fail_at |-> fail_at, disk |-> output_files]
               /\ response' = r.response
               /\ schema_caches' = r.caches
               /\ output_files' = r.disk
    /\ pc' = "returned"
    /\ UNCHANGED <<schema_cache, pages, pages_after, merged, document, document2,
                   normalized, mapped, xml, xml2, cache_files, loader>>

NextBatch == ConvertFile \/ ConvertFileToFiles

SpecBatch == InitBatch /\ [][NextBatch]_vars

\* the ids of the groups of a list of dicts, in order of first appearance
GroupIds(l) ==
    GroupKeys([i \in DOMAIN l |-> normalize_keys_recursive(l[i])], 1, <<>>)

\* the groups all of whose pages carry a code of the code table with a
\* loadable schema cache
ConvertibleGroups(l) ==
    SelectSeq(GroupIds(l),
              LAMBDA id : \A i \in DOMAIN l :
                  DictGet(normalize_keys_recursive(l[i]), "id") = id
                      => Convertible(l[i]))

\* the file holds a list of dicts
ListOfDicts(data) ==
    IsList(data) /\ \A i \in DOMAIN data.items : IsDict(data.items[i])

-----------------------------------------------------------------------------
(* Specification of _load_schema_cache under threads: the calls of several   *)
(* threads on one converter for one document type, one step per statement   *)
(* that reads or writes shared state.  loader holds                          *)
(*   pc        each thread's position in the call                            *)
(*   lock      the holder of _schema_cache_lock (0: free)                    *)
(*   entry     the object in _schema_caches[document_type] (0: no entry)     *)
(*   file      the cache file: "readable", "corrupt" or "absent"             *)
(*   buildable whether SchemaCacheBuilder can build the file                 *)
(*   local     each thread's schema_cache, the object json.load gave it      *)
(*   reads, builds, objects, stores: how often the file was opened, a build  *)
(*             was started, json.load returned an object, an entry was set   *)
(*   returned  the objects the calls have returned so far                    *)
(*   raised    whether a call has raised                                     *)
(*   calls     the calls started so far                                      *)

MaxThreads == 2

MaxCalls == 3

Threads == 1..MaxThreads

InitThreads ==
    /\ \E file \in {"readable", "corrupt", "absent"}, buildable \in BOOLEAN :
           loader = [pc |-> [t \in Threads |-> "idle"], lock |-> 0, entry |-> 0,
                     file |-> file, buildable |-> buildable,
                     local |-> [t \in Threads |-> 0],
                     reads |-> 0, builds |-> 0, objects |-> 0, stores |-> 0,
                     returned |-> {}, raised |-> FALSE, calls |-> 0]
    /\ pc = Unused /\ output_files = Unused
    /\ cache_files = Unused /\ schema_caches = Unused
    /\ request = Unused /\ response = Unused
    /\ schema_cache = Unused
    /\ pages = Unused /\ pages_after = Unused /\ merged = Unused
    /\ document = Unused /\ document2 = Unused /\ normalized = Unused
    /\ mapped = Unused /\ xml = Unused /\ xml2 = Unused

\* the other variables, which the loader leaves alone
NotLoader ==
    <<pc, schema_cache, pages, pages_after, merged, document, document2,
      normalized, mapped, xml, xml2, request, response, schema_caches,
      cache_files, output_files>>

\* thread t is at position at and moves on to position to
Goes(t, at, to, l) ==
    /\ loader.pc[t] = at
    /\ loader' = [l EXCEPT !.pc[t] = to]
    /\ UNCHANGED NotLoader

\* the call returns the object obj
Returns(l, obj) == [l EXCEPT !.returned = @ \cup {obj}]

\* a thread calls _load_schema_cache(document_type)
Call(t) ==
    /\ loader.calls < MaxCalls
    /\ Goes(t, "idle", "check", [loader EXCEPT !.calls = @ + 1])

\* lines 112-114: the check made without the lock
UnlockedCheck(t) ==
    IF loader.entry # 0
    THEN Goes(t, "check", "idle", Returns(loader, loader.entry))
    ELSE Goes(t, "check", "acquire", loader)

\* line 116: with self._schema_cache_lock
Acquire(t) ==
    /\ loader.lock = 0
    /\ Goes(t, "acquire", "locked", [loader EXCEPT !.lock = t])

\* a variant of cached_under_lock that never finds the entry
cached_under_lock_never(l) == FALSE

\* line 117: "if document_type in self._schema_caches", holding the lock
cached_under_lock(l) == l.entry # 0

\* a variant of raise_under_lock that leaves the lock held
raise_under_lock_held(l) == [l EXCEPT !.raised = TRUE]

\* lines 137-138 and 143-148: "raise" inside "with self._schema_cache_lock"
\* (line 116); leaving the with block releases the lock, and nothing has
\* been stored
raise_under_lock(l) == [l EXCEPT !.lock = 0, !.raised = TRUE]

\* lines 117-138: the second check; when there is no entry and no cache
\* file, the file is built, and a failed build raises
LockedCheck(t) ==
    IF cached_under_lock(loader)
    THEN Goes(t, "locked", "idle", Returns([loader EXCEPT !.lock = 0], loader.entry))
    ELSE IF loader.file # "absent"
    THEN Goes(t, "locked", "read", loader)
    ELSE IF loader.buildable
    THEN Goes(t, "locked", "read",
              [loader EXCEPT !.builds = @ + 1, !.file = "readable"])
    ELSE Goes(t, "locked", "idle",
              raise_under_lock([loader EXCEPT !.builds = @ + 1]))

\* lines 140-148: open the file and json.load it, which gives a new object or
\* raises
ReadFile(t) ==
    IF loader.file = "readable"
    THEN Goes(t, "read", "store",
              [loader EXCEPT !.reads = @ + 1, !.objects = @ + 1,
                             !.local[t] = loader.objects + 1])
    ELSE Goes(t, "read", "idle",
              raise_under_lock([loader EXCEPT !.reads = @ + 1]))

\* lines 150-152: set the entry, return it and leave the with block
Store(t) ==
    Goes(t, "store", "idle",
         Returns([loader EXCEPT !.entry = loader.local[t], !.stores = @ + 1,
                                !.lock = 0],
                 loader.local[t]))

NextThreads ==
    \E t \in Threads :
        Call(t) \/ UnlockedCheck(t) \/ Acquire(t) \/ LockedCheck(t) \/ ReadFile(t)
            \/ Store(t)

SpecThreads == InitThreads /\ [][NextThreads]_vars

\* C16 as stated: under any interleaving the cache file is read, and built,
\* at most once, every caller receives the same object, and an entry is
\* inserted once and stays.
C16_AsStated ==
    /\ loader.reads <= 1
    /\ loader.builds <= 1
    /\ Cardinality(loader.returned) <= 1
    /\ loader.stores <= 1

\* C16: under any interleaving json.load returns an object at most once, the
\* file is built at most once unless the build fails, the entry is set at
\* most once and is then the only object any call has returned or returns;
\* a call whose build or read raises returns nothing and sets no entry.
C16_CacheFillIsRaceFree ==
    /\ loader.objects <= 1
    /\ loader.builds > 1 => (loader.file = "absent" /\ ~loader.buildable)
    /\ loader.reads > 1 => loader.file = "corrupt"
    /\ loader.stores <= 1
    /\ loader.stores = 1 <=> loader.entry # 0
    /\ loader.returned \subseteq ({loader.entry} \ {0})
    /\ loader.raised => loader.file # "readable"

\* two threads found no entry without the lock; one has read the file and
\* holds the lock, the other waits for it
C16_Witness ==
    \E t, u \in Threads :
        /\ t # u
        /\ loader.pc[t] = "store" /\ loader.lock = t
        /\ loader.pc[u] = "acquire"

-----------------------------------------------------------------------------
(* Schema cache builder (schema_cache_builder.py).  An XSD is a record       *)
(*   types    for each complex type 1..n: seq, the [name, type] elements of  *)
(*            its xs:sequence (<<>>: the type has simpleContent instead),    *)
(*            and base, the base type of its simpleContent (0: none of the   *)
(*            XSD's types)                                                   *)
(*   prefixed whether the root element names its type with a prefix          *)
(* The root element has type 1; an element type 0 is a type without a        *)
(* definition.  A type with simpleContent declares one attribute, named by   *)
(* the type.  Every recursive call counts the Python frames in level and     *)
(* raises RecursionError beyond RecursionLimit.                              *)

\* max_depth of the element pass
MaxDepth == 7

\* the interpreter's recursion limit, scaled to the XSDs of the model
RecursionLimit == 12

\* elem_info as the element pass writes it
ElemInfo(e, nested_elements, attributes) ==
    [name |-> e.name, type |-> e.type, minOccurs |-> "1", maxOccurs |-> "1",
     nested_elements |-> nested_elements, attributes |-> attributes]

\* what a call beyond the recursion limit leaves in place of its attributes;
\* the build has raised when the mark is anywhere in its result
RecursionError == -1

RecursionErrorInfo == ElemInfo([name |-> "", type |-> 0], <<>>, {RecursionError})

\* a variant of base_not_visited that lets every base type through
base_not_visited_unchecked(base_local, visited) == TRUE

\* line 477: "if base_local not in visited"
base_not_visited(base_local, visited) == base_local \notin visited

RECURSIVE extract_attributes_from_extension(_, _, _, _)

\* _extract_attributes_from_extension for the simpleContent of type t: its own
\* attribute and those of the chain of base types
extract_attributes_from_extension(g, t, visited, level) ==
    IF level > RecursionLimit THEN {RecursionError}
    ELSE IF /\ g.types[t].base # 0
            /\ base_not_visited(g.types[t].base, visited)
            /\ g.types[g.types[t].base].seq = <<>>
    THEN {t} \cup extract_attributes_from_extension(g, g.types[t].base,
                      visited \cup {g.types[t].base}, level + 1)
    ELSE {t}

RECURSIVE extract_all_attributes_from_type(_, _, _, _)

\* _extract_all_attributes_from_type(type_ref, main_root, visited)
extract_all_attributes_from_type(g, t, visited, level) ==
    IF level > RecursionLimit THEN {RecursionError}
    ELSE IF t = 0 \/ t \in visited THEN {}
    ELSE IF g.types[t].seq # <<>> THEN {}
    ELSE IF g.types[t].base # 0 /\ g.types[t].base \notin (visited \cup {t})
    THEN {t} \cup extract_all_attributes_from_type(g, g.types[t].base,
                      visited \cup {t}, level + 1)
    ELSE {t}

RECURSIVE extract_nested_from_sequence(_, _, _, _, _, _)

\* _extract_nested_from_sequence: a type is added to visited before its
\* sequence is entered and discarded after, so visited is the current path
extract_nested_from_sequence(g, sequence, visited, depth, max_depth, level) ==
    IF level > RecursionLimit THEN <<RecursionErrorInfo>>
    ELSE IF depth >= max_depth THEN <<>>
    ELSE [i \in DOMAIN sequence |->
             IF /\ sequence[i].type # 0
                /\ depth < max_depth
                /\ sequence[i].type \notin visited
             THEN IF g.types[sequence[i].type].seq # <<>>
                  THEN ElemInfo(sequence[i],
                           extract_nested_from_sequence(g,
                               g.types[sequence[i].type].seq,
                               visited \cup {sequence[i].type},
                               depth + 1, max_depth, level + 1),
                           {})
                  ELSE ElemInfo(sequence[i], <<>>,
                           extract_attributes_from_extension(g, sequence[i].type,
                               {}, level + 1))
             ELSE ElemInfo(sequence[i], <<>>, {})]

RECURSIVE ExtractTopLevel(_, _, _, _, _, _)

\* lines 302-352: the elements of the root type's sequence; the type of each
\* is added to visited and stays there for the elements after it
ExtractTopLevel(g, sequence, i, visited, max_depth, elements) ==
    IF i > Len(sequence) THEN elements
    ELSE IF sequence[i].type # 0 /\ 0 < max_depth /\ sequence[i].type \notin visited
    THEN ExtractTopLevel(g, sequence, i + 1, visited \cup {sequence[i].type},
             max_depth,
             Append(elements,
                 ElemInfo(sequence[i],
                     IF g.types[sequence[i].type].seq # <<>>
                     THEN extract_nested_from_sequence(g,
                              g.types[sequence[i].type].seq,
                              visited \cup {sequence[i].type}, 1, max_depth, 2)
                     ELSE <<>>,
                     {})))
    ELSE ExtractTopLevel(g, sequence, i + 1, visited, max_depth,
             Append(elements, ElemInfo(sequence[i], <<>>, {})))

\* _extract_elements_from_type(type_ref, root, None, 0, max_depth): visited
\* starts as {type_ref}, the type as the root element spells it; a prefixed
\* spelling (-2) is not the name the elements of the XSD resolve to
extract_elements_from_type(g, max_depth) ==
    ExtractTopLevel(g, g.types[1].seq, 1, IF g.prefixed THEN {-2} ELSE {1},
                    max_depth, <<>>)

\* line 699: "if attrs: elem_info['_attributes'] = attrs"
SetAttributes(attributes, attrs) == IF attrs # {} THEN attrs ELSE attributes

RECURSIVE walk_and_extract(_, _, _)

\* walk_and_extract of the attribute pass: _attributes of the element's type,
\* then the nested elements
walk_and_extract(g, elem_info, level) ==
    IF level > RecursionLimit THEN RecursionErrorInfo
    ELSE [elem_info EXCEPT
             !.attributes = SetAttributes(@,
                 extract_all_attributes_from_type(g, elem_info.type, {}, level + 1)),
             !.nested_elements = [i \in DOMAIN @ |->
                 walk_and_extract(g, @[i], level + 1)]]

RECURSIVE Raised(_)

\* whether a call went beyond the recursion limit while elements was built
Raised(elements) ==
    \E i \in DOMAIN elements :
        \/ RecursionError \in elements[i].attributes
        \/ Raised(elements[i].nested_elements)

\* _build_cache_for_document: element pass, then (unless that raised)
\* attribute pass
build_cache_for_document(g) ==
    IF Raised(extract_elements_from_type(g, MaxDepth))
    THEN extract_elements_from_type(g, MaxDepth)
    ELSE [i \in DOMAIN g.types[1].seq |->
             walk_and_extract(g, extract_elements_from_type(g, MaxDepth)[i], 1)]

-----------------------------------------------------------------------------
(* Specification of the schema cache builder: one build of one XSD *)

MaxTypes == 2

MaxChain == 9

\* the sequences of at most two elements over the types 0..n
XsdSequences(n) ==
    {<<>>} \cup {<<[name |-> "a", type |-> t]>> : t \in 0..n}
           \cup {<<[name |-> "a", type |-> t], [name |-> "b", type |-> u]>> :
                    t \in 0..n, u \in 0..n}

\* a type with a sequence, or one with simpleContent and a base type
XsdTypes(n) ==
    {[seq |-> s, base |-> 0] : s \in XsdSequences(n) \ {<<>>}}
        \cup {[seq |-> <<>>, base |-> b] : b \in 0..n}

\* types 1..k refer to each other in a chain of elements, types k+1..n in a
\* chain of simpleContent bases; the end of the chain refers to back (0: to
\* nothing), which closes a cycle when back is a type of the chain
ChainTypes(n, k, back) ==
    [t \in 1..n |->
        IF t <= k
        THEN [seq |-> IF t < n THEN <<[name |-> "e", type |-> t + 1]>>
                      ELSE IF back = 0 THEN <<>>
                      ELSE <<[name |-> "e", type |-> back]>>,
              base |-> 0]
        ELSE [seq |-> <<>>, base |-> IF t < n THEN t + 1 ELSE back]]

Xsds ==
    {[types |-> ts, prefixed |-> p] :
        ts \in [1..MaxTypes -> XsdTypes(MaxTypes)]
                 \cup UNION {{ChainTypes(n, k, back) : k \in 1..n, back \in 0..n} :
                                n \in 1..MaxChain},
        p \in BOOLEAN}

InitBuilder ==
    /\ pc = "start"
    /\ request \in Xsds
    /\ response = [elements |-> <<>>]
    /\ loader = Unused /\ output_files = Unused
    /\ cache_files = Unused /\ schema_caches = Unused
    /\ schema_cache = Unused
    /\ pages = Unused /\ pages_after = Unused /\ merged = Unused
    /\ document = Unused /\ document2 = Unused /\ normalized = Unused
    /\ mapped = Unused /\ xml = Unused /\ xml2 = Unused

\* SchemaCacheBuilder._build_cache_for_document(root, doc_name)
Build ==
    /\ pc = "start"
    /\ response' = [elements |-> build_cache_for_document(request)]
    /\ pc' = IF Raised(response'.elements) THEN "recursion_error" ELSE "built"
    /\ UNCHANGED <<schema_cache, pages, pages_after, merged, document, document2,
                   normalized, mapped, xml, xml2, request, schema_caches,
                   cache_files, output_files, loader>>

NextBuilder == Build

SpecBuilder == InitBuilder /\ [][NextBuilder]_vars

\* a call that has started runs to its end (Build always changes pc)
FairSpecBuilder == SpecBuilder /\ WF_pc(Build)

RECURSIVE PathLocal(_, _, _, _)

\* every element whose type has a sequence, is not on the path above it and
\* lies above the depth ceiling has nested elements
PathLocal(g, elements, path, depth) ==
    \A i \in DOMAIN elements :
        LET e == elements[i]
        IN (e.type # 0 /\ e.type \notin path /\ g.types[e.type].seq # <<>>
                /\ depth + 1 < MaxDepth) =>
               /\ e.nested_elements # <<>>
               /\ PathLocal(g, e.nested_elements, path \cup {e.type}, depth + 1)

\* C17: in the cache built for any XSD, an element whose complex type is not
\* on its own root-to-leaf path (and lies above the depth ceiling) has that
\* type's children as nested_elements, whatever was explored on other
\* branches or for earlier siblings.
C17_CycleControlIsPathLocal ==
    pc = "built" => PathLocal(request, response.elements, {1}, 0)

\* C18: for every XSD, with cyclic type references and looping base chains,
\* _build_cache_for_document finishes both passes and returns the cache.
C18_CompilationTerminates == <>(pc = "built")

\* a cache was built for an XSD with an element of the root's own type and
\* an element whose type has itself as simpleContent base
C18_Witness ==
    /\ pc = "built"
    /\ \E i \in DOMAIN response.elements : response.elements[i].type = 1
    /\ \E i \in DOMAIN response.elements :
           /\ response.elements[i].attributes # {}
           /\ request.types[response.elements[i].type].base = response.elements[i].type

RECURSIVE ExpandedOnce(_, _)

\* no element with nested elements has the type of an element above it
ExpandedOnce(elements, path) ==
    \A i \in DOMAIN elements :
        elements[i].nested_elements # <<>> =>
            /\ elements[i].type \notin path
            /\ ExpandedOnce(elements[i].nested_elements, path \cup {elements[i].type})

RECURSIVE Levels(_)

\* the number of levels of nested_elements below and including these elements
Levels(elements) ==
    IF elements = <<>> THEN 0
    ELSE 1 + MaxOf({Levels(elements[i].nested_elements) : i \in DOMAIN elements})

\* C19: in every cache built, along any chain from the root element through
\* nested_elements no complex type is expanded twice (the root's type
\* included), and the chain has at most 7 levels.
C19_CacheIsAcyclicAndBounded ==
    pc = "built" =>
        /\ ExpandedOnce(response.elements, {1})
        /\ Levels(response.elements) <= MaxDepth

-----------------------------------------------------------------------------
(* Specification of one serialize call on a document with values that the   *)
(* XML library does not accept.  lxml raises ValueError when a text or an   *)
(* attribute value holds a NUL byte or a control character and when an      *)
(* attribute name is not an XML name.                                       *)

\* a string with a NUL byte
NulText == "a<0x00>b"

\* what lxml accepts as el.text and as an attribute value
XmlCompatible(text) == text # NulText

\* what lxml accepts as an attribute name
XmlName(name) == name \notin {"", "unit code"}

RECURSIVE lxml_rejects(_)

\* whether a call of _create_element made for el, or for an element below
\* it, raises: etree.SubElement(parent, tag, **attrib) checks the attributes,
\* el.text = str(text) the text
lxml_rejects(el) ==
    \/ \E i \in DOMAIN el.text : ~XmlCompatible(el.text[i])
    \/ \E i \in DOMAIN el.attrib :
           ~XmlName(el.attrib[i].key) \/ ~XmlCompatible(el.attrib[i].val)
    \/ \E i \in DOMAIN el.children : lxml_rejects(el.children[i])

\* serialize(doc) with its try / except: an exception of any field is logged
\* and raised again
serialize_or_raise(doc, cache) ==
    IF lxml_rejects(serialize(doc, cache))
    THEN [raised |-> TRUE, root |-> Null]
    ELSE [raised |-> FALSE, root |-> serialize(doc, cache)]

\* values of a top-level field: accepted ones, a text with a NUL byte, an
\* attributes + value dict with an attribute name that is no XML name, a
\* list with one item of each kind
FieldValues ==
    {Str("X"), Str(NulText),
     Dict(<<Entry("value", Str("1")), Entry("currencyID", Str("EUR"))>>),
     Dict(<<Entry("value", Str("1")), Entry("unit code", Str("EA"))>>),
     List(<<Str("a"), Str(NulText)>>)}

FieldEntries(key) == {<<>>} \cup {<<Entry(key, v)>> : v \in FieldValues}

FieldDocuments ==
    {Dict(i \o n \o d) :
        i \in FieldEntries("ID"), n \in FieldEntries("Note"),
        d \in FieldEntries("DueDate")}

InitFields ==
    /\ pc = "start"
    /\ schema_cache \in {InvoiceCache, EmptyCache}
    /\ document \in FieldDocuments
    /\ response = [raised |-> FALSE, root |-> Null]
    /\ loader = Unused /\ output_files = Unused
    /\ cache_files = Unused /\ schema_caches = Unused
    /\ request = Unused
    /\ pages = Unused /\ pages_after = Unused /\ merged = Unused
    /\ document2 = Unused /\ normalized = Unused
    /\ mapped = Unused /\ xml = Unused /\ xml2 = Unused

\* XmlSerializer(schema_cache).serialize(doc)
SerializeFields ==
    /\ pc = "start"
    /\ response' = serialize_or_raise(document, schema_cache)
    /\ pc' = "done"
    /\ UNCHANGED <<schema_cache, pages, pages_after, merged, document, document2,
                   normalized, mapped, xml, xml2, request, schema_caches,
                   cache_files, output_files, loader>>

NextFields == SerializeFields

SpecFields == InitFields /\ [][NextFields]_vars

\* the document without the top-level fields whose emission raises
SerializableFields(doc, cache) ==
    Dict(SelectSeq(doc.items,
             LAMBDA e : ~lxml_rejects(serialize(Dict(<<e>>), cache))))

\* C20: serialize never raises, and the tree it returns is the tree of the
\* document without the fields whose emission raises: every other field of
\* the document is in it, in its place.
C20_FieldFailureIsolation ==
    pc = "done" =>
        /\ ~response.raised
        /\ response.root = serialize(SerializableFields(document, schema_cache),
                                     schema_cache)

-----------------------------------------------------------------------------
(* Specification of one serialize call with a schema cache whose entries    *)
(* carry _attributes, for documents with attributed scalars, booleans and   *)
(* undeclared keys                                                          *)

\* a schema entry with _attributes: lowercase attribute name -> name
ElemAttr(key, name, type, minOccurs, maxOccurs, nested, attributes) ==
    [key |-> key, name |-> name, type |-> type, minOccurs |-> minOccurs,
     maxOccurs |-> maxOccurs, nested_elements |-> nested, attributes |-> attributes]

\* An excerpt of the Invoice cache with the extension element, a boolean, the
\* document's currency code, an aggregate whose name holds no indicator word
\* and an amount with the currencyID attribute
EmitElements ==
    << ElemAttr("ublextensions", "UBLExtensions", "ext:UBLExtensions", "0", "1",
                <<>>, <<>>),
       ElemAttr("id", "ID", "cbc:ID", "1", "1", <<>>, <<>>),
       ElemAttr("copyindicator", "CopyIndicator", "cbc:CopyIndicator", "0", "1",
                <<>>, <<>>),
       ElemAttr("note", "Note", "cbc:Note", "0", "unbounded", <<>>, <<>>),
       ElemAttr("documentcurrencycode", "DocumentCurrencyCode",
                "cbc:DocumentCurrencyCode", "0", "1", <<>>, <<>>),
       ElemAttr("signature", "Signature", "cac:Signature", "0", "1",
                <<ElemAttr("id", "ID", "cbc:ID", "1", "1", <<>>, <<>>)>>, <<>>),
       ElemAttr("payableamount", "PayableAmount", "cbc:PayableAmount", "0", "1",
                <<>>, <<Entry("currencyid", "currencyID")>>) >>

EmitCache ==
    [empty |-> FALSE, root_element_name |-> "Invoice",
     root_namespace |-> "urn:oasis:names:specification:ubl:schema:xsd:Invoice-2",
     elements |-> EmitElements]

Optional(key, values) == {<<>>} \cup {<<Entry(key, v)>> : v \in values}

AmountValues ==
    {Str("1"),
     Dict(<<Entry("value", Str("1"))>>),
     Dict(<<Entry("value", Str("1")), Entry("currencyID", Str("USD"))>>),
     Dict(<<Entry("value", Str("1")), Entry("currencyid", Str("USD"))>>),
     Dict(<<Entry("value", Str("1")), Entry("extra", Str("e"))>>)}

EmitDocuments ==
    {Dict(t \o a \o i \o c \o n \o s \o u \o d) :
        t \in Optional("document_type", {Str("380")}),
        a \in Optional("payableamount", AmountValues),
        i \in Optional("id", {Str("X")}),
        c \in Optional("copyindicator", {Bool(TRUE), Bool(FALSE)}),
        n \in Optional("note", {List(<<Bool(TRUE), Str("a")>>)}),
        s \in Optional("signature", {Dict(<<Entry("id", Str("S"))>>)}),
        u \in Optional("ublextensions",
                       {Str("x"), Dict(<<Entry("extra", Str("e"))>>)}),
        d \in Optional("documentcurrencycode", {Str("EUR")})}

InitEmit ==
    /\ pc = "start"
    /\ schema_cache \in {EmitCache, EmptyCache}
    /\ document \in EmitDocuments
    /\ xml = Unused
    /\ loader = Unused /\ output_files = Unused
    /\ cache_files = Unused /\ schema_caches = Unused
    /\ request = Unused /\ response = Unused
    /\ pages = Unused /\ pages_after = Unused /\ merged = Unused
    /\ document2 = Unused /\ normalized = Unused
    /\ mapped = Unused /\ xml2 = Unused

\* XmlSerializer(schema_cache).serialize(doc)
Emit ==
    /\ pc = "start"
    /\ xml' = serialize(document, schema_cache)
    /\ pc' = "done"
    /\ UNCHANGED <<schema_cache, pages, pages_after, merged, document, document2,
                   normalized, mapped, xml2, request, response, schema_caches,
                   cache_files, output_files, loader>>

NextEmit == Emit

SpecEmit == InitEmit /\ [][NextEmit]_vars

\* the namespace the prefix of a declared type stands for
DeclaredNamespace(type, parent_ns) ==
    CASE SubSeq(type, 1, 4) = "cbc:" -> NS_CBC
      [] SubSeq(type, 1, 4) = "cac:" -> NS_CAC
      [] SubSeq(type, 1, 4) = "ext:" -> NS_EXT
      [] OTHER -> parent_ns

RECURSIVE NamespacesByType(_, _)

\* every child of el that the schema map declares is in the namespace of its
\* declared type, and so below it
NamespacesByType(el, schema_spec) ==
    \A i \in DOMAIN el.children :
        \A j \in DOMAIN schema_spec :
            schema_spec[j].name = el.children[i].tag =>
                /\ el.children[i].ns = DeclaredNamespace(schema_spec[j].type, el.ns)
                /\ NamespacesByType(el.children[i], schema_spec[j].nested_elements)

\* C21: every child element emitted for a schema entry is in the namespace
\* that the prefix of the entry's declared type stands for (cbc, cac, ext),
\* and in its parent's namespace when the type has no such prefix.
C21_NamespaceByDeclaredType ==
    (pc = "done" /\ ~schema_cache.empty) => NamespacesByType(xml, schema_cache.elements)

\* the data given for the schema entry info, None when the document has none
DataFor(doc, info) ==
    IF HasKey(KeysLower(doc.items), info.key)
    THEN GetKey(doc.items, GetKey(KeysLower(doc.items), info.key))
    ELSE Null

\* whether an object supplies the attribute with the lowercase name attr
Supplies(value, attr) ==
    IsDict(value) /\ \E i \in DOMAIN value.items : Lower(value.items[i].key) = attr

\* C22: for a singular schema entry with _attributes and no nested children,
\* an object with a value entry becomes one element whose text is the value,
\* whose attributes all carry a declared attribute's canonical name, and which
\* has every other entry of the object that matches a declared attribute as
\* that attribute; an entry that matches none is no attribute.
C22_AttributedScalars ==
    (pc = "done" /\ ~schema_cache.empty) =>
        \A j \in DOMAIN schema_cache.elements :
            LET info == schema_cache.elements[j]
                v == DataFor(document, info)
                els == ElementsNamed(xml.children, info.name)
            IN (/\ info.attributes # <<>> /\ info.nested_elements = <<>>
                /\ info.maxOccurs # "unbounded"
                /\ IsDict(v) /\ HasKey(v.items, "value")) =>
                   /\ Len(els) = 1
                   /\ els[1].text = <<PyStr(GetKey(v.items, "value"))>>
                   /\ \A a \in DOMAIN els[1].attrib :
                          \E d \in DOMAIN info.attributes :
                              info.attributes[d].val = els[1].attrib[a].key
                   /\ \A i \in DOMAIN v.items :
                          (v.items[i].key # "value"
                              /\ HasKey(info.attributes, Lower(v.items[i].key))) =>
                             \E a \in DOMAIN els[1].attrib :
                                 /\ els[1].attrib[a].key =
                                        GetKey(info.attributes, Lower(v.items[i].key))
                                 /\ els[1].attrib[a].val = PyStr(v.items[i].val)

\* C23: when the schema declares currencyID for an element, the data for the
\* element supplies no currency attribute and the document has a top-level
\* documentCurrencyCode, the element carries currencyID with that code.
C23_CurrencyFallback ==
    (pc = "done" /\ ~schema_cache.empty) =>
        \A j \in DOMAIN schema_cache.elements :
            LET info == schema_cache.elements[j]
                v == DataFor(document, info)
                els == ElementsNamed(xml.children, info.name)
            IN (/\ HasKey(info.attributes, "currencyid")
                /\ ~IsNone(v) /\ ~Supplies(v, "currencyid")
                /\ Supplies(document, "documentcurrencycode")) =>
                   /\ els # <<>>
                   /\ \A n \in DOMAIN els :
                          \E a \in DOMAIN els[n].attrib :
                              /\ els[n].attrib[a].key = "currencyID"
                              /\ els[n].attrib[a].val =
                                     PyStr(GetKey(document.items, "documentcurrencycode"))

\* the XML text of a boolean
BooleanText(v) == IF v = Bool(TRUE) THEN <<"true">> ELSE <<"false">>

\* C24: a boolean given for a singular schema entry is the text "true" or
\* "false" of its element, and a boolean item of a list given for an array
\* entry is the text "true" or "false" of the element at its position.
C24_BooleanRendering ==
    (pc = "done" /\ ~schema_cache.empty) =>
        \A j \in DOMAIN schema_cache.elements :
            LET info == schema_cache.elements[j]
                v == DataFor(document, info)
                els == ElementsNamed(xml.children, info.name)
            IN /\ v.k = "bool" => (Len(els) = 1 /\ els[1].text = BooleanText(v))
               /\ (info.maxOccurs = "unbounded" /\ IsList(v)) =>
                      /\ Len(els) = Len(v.items)
                      /\ \A n \in DOMAIN v.items :
                             v.items[n].k = "bool" =>
                                 els[n].text = BooleanText(v.items[n])

RECURSIVE OnlyDeclared(_, _)

\* every child of el carries the name of an entry of the schema map of its
\* level, and so below it
OnlyDeclared(el, schema_spec) ==
    \A i \in DOMAIN el.children :
        \E j \in DOMAIN schema_spec :
            /\ schema_spec[j].name = el.children[i].tag
            /\ OnlyDeclared(el.children[i], schema_spec[j].nested_elements)

\* C30: at every level of the serialized tree each child element is declared
\* by the schema map of that level; with an empty schema cache, and below an
\* element whose nested_elements is empty, there are no child elements.
C30_OnlyDeclaredElements ==
    pc = "done" => OnlyDeclared(xml, schema_cache.elements)

(***************************************************************************)
(* _check_output_dir_writable under threads (converter.py:58-84).  The     *)
(* variable loader holds the threads' positions, the lock, the cache entry *)
(* of the one directory, and whether the directory holds the probe file    *)
(* ".json2ubl_write_test", which every call shares.                        *)
(***************************************************************************)

InitDirs ==
    /\ \E writable \in BOOLEAN :
           loader = [pc |-> [t \in Threads |-> "idle"], lock |-> 0,
                     cache |-> "absent", writable |-> writable,
                     temp_test_file |-> FALSE, probes |-> 0,
                     returned |-> {}, calls |-> 0]
    /\ pc = Unused /\ output_files = Unused
    /\ cache_files = Unused /\ schema_caches = Unused
    /\ request = Unused /\ response = Unused
    /\ schema_cache = Unused
    /\ pages = Unused /\ pages_after = Unused /\ merged = Unused
    /\ document = Unused /\ document2 = Unused /\ normalized = Unused
    /\ mapped = Unused /\ xml = Unused /\ xml2 = Unused

\* thread t is at position at of _check_output_dir_writable and moves on to
\* position to
Moves(t, at, to, l) ==
    /\ loader.pc[t] = at
    /\ loader' = [l EXCEPT !.pc[t] = to]
    /\ UNCHANGED NotLoader

\* a thread calls _check_output_dir_writable(output_path)
CallCheck(t) ==
    /\ loader.calls < MaxCalls
    /\ Moves(t, "idle", "check", [loader EXCEPT !.calls = @ + 1])

\* lines 64-65: the cache is looked up without the lock; a hit is returned
CheckDirCache(t) ==
    IF loader.cache # "absent"
    THEN Moves(t, "check", "idle",
               [loader EXCEPT !.returned = @ \cup {loader.cache}])
    ELSE Moves(t, "check", "write", loader)

\* lines 67-69: mkdir and temp_test_file.write_text(""), which raises in a
\* directory that is not writable
WriteTemp(t) ==
    IF loader.writable
    THEN Moves(t, "write", "unlink",
               [loader EXCEPT !.temp_test_file = TRUE, !.probes = @ + 1])
    ELSE Moves(t, "write", "failed", [loader EXCEPT !.probes = @ + 1])

\* line 70: temp_test_file.unlink(), FileNotFoundError when the file is gone
UnlinkTemp(t) ==
    IF loader.temp_test_file
    THEN Moves(t, "unlink", "exists", [loader EXCEPT !.temp_test_file = FALSE])
    ELSE Moves(t, "unlink", "failed", loader)

\* lines 71-72: "if temp_test_file.exists(): raise OSError"
ExistsTemp(t) ==
    IF loader.temp_test_file
    THEN Moves(t, "exists", "failed", loader)
    ELSE Moves(t, "exists", "passed", loader)

\* lines 74 and 81: with self._output_dir_cache_lock, on either path
AcquireDirLock(t) ==
    /\ loader.lock = 0
    /\ \/ Moves(t, "passed", "store_true", [loader EXCEPT !.lock = t])
       \/ Moves(t, "failed", "store_false", [loader EXCEPT !.lock = t])

\* lines 75-77 and 82-84: set the entry, leave the with block and return
StoreResult(t) ==
    \/ Moves(t, "store_true", "idle",
             [loader EXCEPT !.cache = "true", !.lock = 0,
                            !.returned = @ \cup {"true"}])
    \/ Moves(t, "store_false", "idle",
             [loader EXCEPT !.cache = "false", !.lock = 0,
                            !.returned = @ \cup {"false"}])

NextDirs ==
    \E t \in Threads :
        CallCheck(t) \/ CheckDirCache(t) \/ WriteTemp(t) \/ UnlinkTemp(t)
            \/ ExistsTemp(t) \/ AcquireDirLock(t) \/ StoreResult(t)

SpecDirs == InitDirs /\ [][NextDirs]_vars

\* C25: the check of the writability cache, the probe and the insertion form
\* one critical section: under any interleaving of calls for the same
\* uncached, writable directory the directory is probed at most once, every
\* call returns true, and the cache never records the directory as
\* non-writable.
C25_DirCacheFilledUnderOneLock ==
    loader.writable =>
        /\ loader.probes <= 1
        /\ "false" \notin loader.returned
        /\ loader.cache # "false"

\* the cache file cannot be loaded: it is corrupt, or absent with an XSD that
\* is missing or does not compile
Unloadable ==
    loader.file = "corrupt" \/ (loader.file = "absent" /\ ~loader.buildable)

\* what convert_json_dict_to_xml_dict returns for an invoice on the converter
\* in its present state
InvoiceResponse ==
    convert_json_dict_to_xml_dict(
        Dict(<<Entry("ID", Str("X")), Entry("document_type", Str("380"))>>),
        IF loader.entry # 0 THEN {"Invoice"} ELSE {},
        IF Unloadable THEN {} ELSE {"Invoice"}, "valid")

\* C26: a cache file that is absent is never read before a build was
\* attempted; when the build or the read of the file fails, the call raises
\* (convert_json_dict_to_xml_dict then returns an error response for the load
\* failure and no document), no entry is inserted into the in-memory cache,
\* and the lock is free once the failing call has left, so later calls are
\* not blocked.
C26_LoadFailurePropagates ==
    /\ loader.file = "absent" => loader.reads = 0
    /\ loader.raised => Unloadable
    /\ (loader.raised /\ loader.file = "absent") => loader.builds >= 1
    /\ Unloadable =>
           /\ loader.entry = 0 /\ loader.stores = 0 /\ loader.returned = {}
           /\ With(InvoiceResponse, LAMBDA r :
                  /\ r.response.error_response
                       = ErrorString("Failed to convert document: FileNotFoundError")
                  /\ r.response.documents = <<>>
                  /\ r.caches = {})
    /\ \A t \in Threads :
           loader.pc[t] \in {"idle", "check", "acquire"} => loader.lock # t

\* two calls have failed to build the absent cache file, the second one after
\* the first had raised, and nothing is stored
C26_Witness ==
    /\ loader.raised /\ loader.file = "absent"
    /\ loader.builds >= 2
    /\ loader.lock = 0 /\ loader.entry = 0

-----------------------------------------------------------------------------
(* Specification of the responses: calls of convert_json_dict_to_xml_dict   *)
(* and of convert_json_file_to_xml_dict on one converter                    *)

\* converter.convert_json_dict_to_xml_dict(document_dict) as the one call of
\* a behaviour
ConvertDictOnce == pc = "idle" /\ ConvertDict

NextResponses == ConvertDictOnce \/ ConvertFile

SpecResponses == InitBatch /\ [][NextResponses]_vars

RECURSIVE SumCounts(_, _)

\* the sum of the counts of document_types from entry i on
SumCounts(document_types, i) ==
    IF i > Len(document_types) THEN 0
    ELSE document_types[i].val + SumCounts(document_types, i + 1)

\* C27: in every response of convert_json_dict_to_xml_dict and of
\* convert_json_file_to_xml_dict an error_response that is not null comes
\* with documents = [] and the summary {0, 0, {}}, and in all cases
\* total_inputs = the number of documents = the sum of the counts in
\* document_types, and files_created = 0.
C27_ResponseInvariant ==
    (pc = "returned" /\ request.api \in {"convert_json_dict_to_xml_dict",
                                         "convert_json_file_to_xml_dict"}) =>
        /\ response.error_response # NoError =>
               /\ response.documents = <<>>
               /\ response.summary = [total_inputs |-> 0, files_created |-> 0,
                                      document_types |-> <<>>]
        /\ response.summary.total_inputs = Len(response.documents)
        /\ response.summary.total_inputs
             = SumCounts(response.summary.document_types, 1)
        /\ response.summary.files_created = 0

\* convert_json_file_to_xml_dict has returned an error for a file of two
\* groups
C27_Witness ==
    /\ pc = "returned" /\ request.api = "convert_json_file_to_xml_dict"
    /\ ListOfDicts(request.arg)
    /\ Len(GroupIds(request.arg.items)) = 2
    /\ response.error_response # NoError
    /\ response.summary.total_inputs = 0

\* C28: _merge_pages never mutates its inputs: after the call every input
\* page, the first one and every later one, has the contents it had before
\* the call; a list held by a later page is not extended when pages after it
\* contribute to the same array field.
C28_InputsNotMutated ==
    pc = "done" => pages_after = pages

-----------------------------------------------------------------------------
(* Specification of the write loop of convert_json_file_to_xml_files        *)
(* (converter.py:477-563) applied to the response that                      *)
(* convert_json_file_to_xml_dict is documented to return: documents with    *)
(* an id, the XML of a root element and unmapped_fields                     *)

RECURSIVE TypesOf(_, _, _)

\* summary.document_types of a response with the documents docs
TypesOf(docs, i, document_types) ==
    IF i > Len(docs) THEN document_types
    ELSE TypesOf(docs, i + 1, CountType(document_types, docs[i].xml.tag, 1))

\* responses without an error: at most MaxDocs documents with distinct ids
WrittenResponses ==
    {[documents |-> docs,
      summary |-> [total_inputs |-> Len(docs), files_created |-> 0,
                   document_types |-> TypesOf(docs, 1, <<>>)],
      error_response |-> NoError] :
        docs \in {d \in UNION {[1..n -> [id : {Str("X"), Str("Y"), Str("Z")},
                                          xml : {[tag |-> t] : t \in DocumentTypes},
                                          unmapped_fields : {<<>>}]] :
                                   n \in 0..MaxDocs} :
                     \A i, j \in DOMAIN d : d[i].id = d[j].id => i = j}}

InitWrite ==
    /\ loader = Unused
    /\ pc = "idle"
    /\ output_files \in OutputDirs
    /\ cache_files = Unused /\ schema_caches = Unused
    /\ request = Unused /\ response = Unused
    /\ schema_cache = Unused
    /\ pages = Unused /\ pages_after = Unused /\ merged = Unused
    /\ document = Unused /\ document2 = Unused /\ normalized = Unused
    /\ mapped = Unused /\ xml = Unused /\ xml2 = Unused

\* lines 477-563: the documents of the response are written to the output
\* directory; fail_at = 0 when no write meets an error
WriteFiles ==
    /\ pc = "idle"
    /\ \E r \in WrittenResponses, fail_at \in 0..MaxDocs :
           \E w \in {WriteDocuments(r.documents, 1, output_files, fail_at,
                                    <<>>, <<>>)} :
               /\ request' = [api |-> "convert_json_file_to_xml_files",
                              response |-> r, fail_at |-> fail_at,
                              disk |-> output_files]
               /\ response' = IF w.raised
                              THEN FailureResponse(0,
                                       ErrorString("Failed to write XML files: IOError"))
                              ELSE [documents |-> w.documents,
                                    summary |-> [r.summary EXCEPT
                                        !.files_created = w.files_created],
                                    error_response |-> NoError]
               /\ output_files' = w.disk
    /\ pc' = "returned"
    /\ UNCHANGED <<schema_cache, pages, pages_after, merged, document, document2,
                   normalized, mapped, xml, xml2, cache_files, schema_caches,
                   loader>>

NextWrite == WriteFiles

SpecWrite == InitWrite /\ [][NextWrite]_vars

====
